---- MODULE Spec2Model ----
(***************************************************************************)
(* Verification model of the AIFi on-chain ledgers:                        *)
(*   - AIFiLendingPool  (deposit / withdraw / borrow / repay, interest)    *)
(*   - AIFiRemittance   (corridor fees, transfer lifecycle)                *)
(* Each contract call is one atomic action: a call whose require() fails   *)
(* reverts, i.e. is a step that changes nothing, so it is modelled by the  *)
(* action being disabled.                                                  *)
(***************************************************************************)
EXTENDS Integers, Sequences, FiniteSets, TLC

(***************************************************************************)
(* uint256 arithmetic on numbers wider than 32 bits.                       *)
(* A number is a little-endian sequence of limbs in 0..LimbBase-1 without  *)
(* high zero limbs; << >> is zero.  The values met here stay far below     *)
(* 2^256, so SafeMath's overflow revert of add/mul never triggers; the     *)
(* underflow revert of sub is modelled by the callers' guards.             *)
(***************************************************************************)
LimbBase == 10000

\* Every operator first evaluates its number arguments once (x \in {a} binds x
\* to the value of a), so that nested calls cost the same wherever they are
\* evaluated.
Limb(x, i) == IF i <= Len(x) THEN x[i] ELSE 0

HighLimb(x) ==
    IF \A i \in 1 .. Len(x) : x[i] = 0 THEN 0
    ELSE CHOOSE i \in 1 .. Len(x) : x[i] # 0 /\ \A j \in (i + 1) .. Len(x) : x[j] = 0

BNorm(s) == CHOOSE q \in {SubSeq(x, 1, HighLimb(x)) : x \in {s}} : TRUE

RECURSIVE ToBig(_)
ToBig(n) ==
    IF n = 0 THEN << >>
    ELSE << n % LimbBase >> \o ToBig(n \div LimbBase)

RECURSIVE FromBigAt(_, _)
FromBigAt(x, i) ==
    IF i > Len(x) THEN 0 ELSE x[i] + LimbBase * FromBigAt(x, i + 1)

FromBig(s) == CHOOSE q \in {FromBigAt(x, 1) : x \in {s}} : TRUE

RECURSIVE BAddAt(_, _, _, _)
BAddAt(x, y, i, c) ==
    IF i > Len(x) /\ i > Len(y)
    THEN (IF c = 0 THEN << >> ELSE << c >>)
    ELSE << (Limb(x, i) + Limb(y, i) + c) % LimbBase >>
           \o BAddAt(x, y, i + 1, (Limb(x, i) + Limb(y, i) + c) \div LimbBase)

BAdd(a, b) == CHOOSE q \in {BAddAt(x, y, 1, 0) : x \in {a}, y \in {b}} : TRUE

\* a < b, a = b, a > b  as  -1, 0, 1
RECURSIVE BCmpFrom(_, _, _)
BCmpFrom(x, y, i) ==
    IF i = 0 THEN 0
    ELSE IF x[i] < y[i] THEN -1
    ELSE IF x[i] > y[i] THEN 1
    ELSE BCmpFrom(x, y, i - 1)

BCmpV(x, y) ==
    IF Len(x) < Len(y) THEN -1
    ELSE IF Len(x) > Len(y) THEN 1
    ELSE BCmpFrom(x, y, Len(x))

BCmp(a, b) == CHOOSE q \in {BCmpV(x, y) : x \in {a}, y \in {b}} : TRUE

BLe(a, b) == BCmp(a, b) <= 0
BLt(a, b) == BCmp(a, b) < 0

\* a - b for b <= a; c is the borrow
RECURSIVE BSubAt(_, _, _, _)
BSubAt(x, y, i, c) ==
    IF i > Len(x) THEN << >>
    ELSE << (x[i] - Limb(y, i) - c + LimbBase) % LimbBase >>
           \o BSubAt(x, y, i + 1, IF x[i] - Limb(y, i) - c < 0 THEN 1 ELSE 0)

BSub(a, b) == BNorm(CHOOSE q \in {BSubAt(x, y, 1, 0) : x \in {a}, y \in {b}} : TRUE)

\* x * k for one limb k; c is the carry
RECURSIVE BMulLimbAt(_, _, _, _)
BMulLimbAt(x, k, i, c) ==
    IF i > Len(x) THEN (IF c = 0 THEN << >> ELSE << c >>)
    ELSE << (x[i] * k + c) % LimbBase >>
           \o BMulLimbAt(x, k, i + 1, (x[i] * k + c) \div LimbBase)

BShift(s) == CHOOSE q \in {IF x = << >> THEN << >> ELSE << 0 >> \o x : x \in {s}} : TRUE

RECURSIVE BMulAt(_, _, _)
BMulAt(x, y, j) ==
    IF j > Len(y) THEN << >>
    ELSE BAdd(BMulLimbAt(x, y[j], 1, 0), BShift(BMulAt(x, y, j + 1)))

BMul(a, b) == BNorm(CHOOSE q \in {BMulAt(x, y, 1) : x \in {a}, y \in {b}} : TRUE)

\* floor(a / d) for a divisor d with d * LimbBase inside the native integers;
\* long division from the high limb down, r is the running remainder
RECURSIVE BDivSmallAt(_, _, _, _)
BDivSmallAt(x, d, i, r) ==
    IF i = 0 THEN << >>
    ELSE BDivSmallAt(x, d, i - 1, (r * LimbBase + x[i]) % d)
           \o << (r * LimbBase + x[i]) \div d >>

BDivSmall(a, d) ==
    BNorm(CHOOSE q \in {BDivSmallAt(x, d, Len(x), 0) : x \in {a}} : TRUE)

RECURSIVE BPow10(_)
BPow10(n) == IF n = 0 THEN << 1 >> ELSE BMul(BPow10(n - 1), << 10 >>)

E18 == BPow10(18)

(***************************************************************************)
(* Accounts, assets and the inputs the calls are tried with                *)
(***************************************************************************)
Users == {"A", "B"}
Owner == "Owner"            \* deployer of both ledgers: Ownable's owner()
Pool == "Pool"              \* address(this) of AIFiLendingPool
ZeroAddress == "0x0"        \* address(0)
Tokens == {"X"}
TokenAddrs == Tokens \cup {ZeroAddress}
Callers == Users \cup {Owner}
RiskTier == {"LOW", "MEDIUM", "HIGH"}

SecondsPerYear == 31536000
StartTime == 1700000000
MaxYears == 2
TimeSteps == {SecondsPerYear}

\* the calls tried: <<caller, amount>>
DepositCalls == {<<"A", 1000>>, <<"B", 100>>, <<"B", 0>>}
WithdrawCalls == {<<"A", 1000>>, <<"B", 50>>, <<"B", 1000>>, <<"A", 0>>}
BorrowCalls == {<<"A", 400>>, <<"B", 150>>, <<"B", 0>>}
RateTiers == {"MEDIUM"}
NewRates == {2000, 5001}

\* token units each user holds when the ledgers are deployed
InitialHolding(t, h) ==
    IF t = "X" /\ h = "A" THEN 1100
    ELSE IF t = "X" /\ h = "B" THEN 100
    ELSE 0

(***************************************************************************)
(* Lending pool                                                            *)
(***************************************************************************)
VARIABLES
    now,              \* block.timestamp
    supportedTokens,  \* token -> BOOLEAN
    interestRates,    \* RiskTier -> annual basis points
    userDeposits,     \* user -> token -> amount
    userLoans,        \* borrower -> token -> Loan
    totalDeposits,    \* token -> amount
    tokenBalance,     \* ERC20 balanceOf: token -> holder -> amount
    approved          \* ERC20 allowance given to the pool: token -> user -> BOOLEAN
                      \* (TRUE is an allowance of type(uint256).max, FALSE is 0)

lendingVars == << now, supportedTokens, interestRates, userDeposits, userLoans,
                  totalDeposits, tokenBalance, approved >>

(***************************************************************************)
(* Remittance ledger.  Amounts are uint256 numbers in limbs.               *)
(***************************************************************************)
VARIABLES
    rSupportedTokens,   \* AIFiRemittance.supportedTokens: token -> BOOLEAN
    corridorFees,       \* origin -> destination -> basis points
    defaultFee,         \* basis points
    minTransferAmount,
    maxTransferAmount,
    transferCounter,
    transfers,          \* transfer id -> Transfer
    userTransfers,      \* user -> sequence of transfer ids
    treasury,
    rBalance,           \* ERC20 balanceOf: token -> holder -> amount
    rApproved           \* ERC20 allowance given to the ledger: token -> user -> BOOLEAN

remitVars == << rSupportedTokens, corridorFees, defaultFee, minTransferAmount,
                maxTransferAmount, transferCounter, transfers, userTransfers,
                treasury, rBalance, rApproved >>

(***************************************************************************)
(* Results of read-only calls                                              *)
(***************************************************************************)
VARIABLES
    calcResult,         \* the last calculateInterest call: its arguments and value
    feeResult           \* the last calculateFee call: its arguments and value

viewVars == << calcResult, feeResult >>

(***************************************************************************)
(* State of AIRiskOracle                                                   *)
(***************************************************************************)
VARIABLES
    userRiskTiers,      \* user -> RiskTier; an unwritten slot reads LOW (0)
    authorizedCallers,  \* address -> BOOLEAN
    aiOracleUpdater,
    tierResult          \* the last successful getRiskTier call: caller, user, value

oracleVars == << userRiskTiers, authorizedCallers, aiOracleUpdater, tierResult >>

(***************************************************************************)
(* State of AIFiVoiceInterface                                             *)
(***************************************************************************)
VARIABLES
    actions,               \* command hash -> ActionInfo
    supportedLanguages,    \* language code -> BOOLEAN
    authorizedProcessors,  \* address -> BOOLEAN
    commandResult,         \* the last successful processCommand call
    hashResult,            \* the last generateCommandHash call
    prevHashResult         \* the generateCommandHash call before it

voiceVars == << actions, supportedLanguages, authorizedProcessors, commandResult, hashResult, prevHashResult >>

(***************************************************************************)
(* ReentrancyGuard of the two ledgers and the call in progress             *)
(***************************************************************************)
VARIABLES
    lEntered,           \* AIFiLendingPool: ReentrancyGuard._status = _ENTERED
    rEntered,           \* AIFiRemittance: ReentrancyGuard._status = _ENTERED
    inCall              \* the operation that is inside its external token call

guardVars == << lEntered, rEntered, inCall >>

vars == << lendingVars, remitVars, viewVars, oracleVars, voiceVars, guardVars >>

\* what a call to one ledger leaves alone
nonLendingVars == << remitVars, viewVars, oracleVars, voiceVars, guardVars >>
nonRemitVars == << lendingVars, viewVars, oracleVars, voiceVars, guardVars >>
nonOracleVars == << lendingVars, remitVars, viewVars, voiceVars, guardVars >>
nonVoiceVars == << lendingVars, remitVars, viewVars, oracleVars, guardVars >>

NoLoan == [amount |-> 0, timestamp |-> 0, riskTier |-> "LOW", active |-> FALSE]

LendingInit ==
    /\ now = StartTime
    /\ supportedTokens = [t \in TokenAddrs |-> FALSE]
    /\ interestRates = [r \in RiskTier |->
                          IF r = "LOW" THEN 500 ELSE IF r = "MEDIUM" THEN 1000 ELSE 1500]
    /\ userDeposits = [u \in Users |-> [t \in TokenAddrs |-> 0]]
    /\ userLoans = [u \in Users |-> [t \in TokenAddrs |-> NoLoan]]
    /\ totalDeposits = [t \in TokenAddrs |-> 0]
    /\ tokenBalance = [t \in Tokens |-> [h \in Users \cup {Pool} |-> InitialHolding(t, h)]]
    /\ approved = [t \in Tokens |-> [u \in Users |-> FALSE]]

\* IERC20.safeTransferFrom(from, pool, amt) goes through
CanPull(t, from, amt) ==
    /\ t \in Tokens
    /\ approved[t][from]
    /\ tokenBalance[t][from] >= amt

\* IERC20.safeTransfer(to, amt) out of the pool goes through
CanPush(t, amt) ==
    /\ t \in Tokens
    /\ tokenBalance[t][Pool] >= amt

Moved(bal, t, from, to, amt) ==
    [bal EXCEPT ![t][from] = @ - amt, ![t][to] = @ + amt]

addSupportedToken(caller, t) ==
    /\ caller = Owner
    /\ t # ZeroAddress
    /\ ~supportedTokens[t]
    /\ supportedTokens' = [supportedTokens EXCEPT ![t] = TRUE]
    /\ UNCHANGED << now, interestRates, userDeposits, userLoans, totalDeposits,
                    tokenBalance, approved >>
    /\ UNCHANGED nonLendingVars

removeSupportedToken(caller, t) ==
    /\ caller = Owner
    /\ supportedTokens[t]
    /\ supportedTokens' = [supportedTokens EXCEPT ![t] = FALSE]
    /\ UNCHANGED << now, interestRates, userDeposits, userLoans, totalDeposits,
                    tokenBalance, approved >>
    /\ UNCHANGED nonLendingVars

updateInterestRate(caller, tier, newRate) ==
    /\ caller = Owner
    /\ newRate <= 5000
    /\ interestRates' = [interestRates EXCEPT ![tier] = newRate]
    /\ UNCHANGED << now, supportedTokens, userDeposits, userLoans, totalDeposits,
                    tokenBalance, approved >>
    /\ UNCHANGED nonLendingVars

\* deposit that credits the account but not the asset total
depositForgetsTotal(sender, t, amt) ==
    /\ ~lEntered              \* nonReentrant
    /\ supportedTokens[t]
    /\ amt > 0
    /\ CanPull(t, sender, amt)
    /\ tokenBalance' = Moved(tokenBalance, t, sender, Pool, amt)
    /\ userDeposits' = [userDeposits EXCEPT ![sender][t] = @ + amt]
    /\ UNCHANGED << now, supportedTokens, interestRates, userLoans, approved,
                    totalDeposits >>
    /\ UNCHANGED nonLendingVars

\* deposit that books the amount although the token transfer did not go through
depositIgnoresPullFailure(sender, t, amt) ==
    /\ ~lEntered              \* nonReentrant
    /\ supportedTokens[t]
    /\ amt > 0
    /\ t \in Tokens
    /\ tokenBalance' = IF CanPull(t, sender, amt)
                       THEN Moved(tokenBalance, t, sender, Pool, amt)
                       ELSE tokenBalance
    /\ userDeposits' = [userDeposits EXCEPT ![sender][t] = @ + amt]
    /\ totalDeposits' = [totalDeposits EXCEPT ![t] = @ + amt]
    /\ UNCHANGED << now, supportedTokens, interestRates, userLoans, approved >>
    /\ UNCHANGED nonLendingVars

deposit(sender, t, amt) ==
    /\ ~lEntered              \* nonReentrant
    /\ supportedTokens[t]
    /\ amt > 0
    /\ CanPull(t, sender, amt)
    /\ tokenBalance' = Moved(tokenBalance, t, sender, Pool, amt)
    /\ userDeposits' = [userDeposits EXCEPT ![sender][t] = @ + amt]
    /\ totalDeposits' = [totalDeposits EXCEPT ![t] = @ + amt]
    /\ UNCHANGED << now, supportedTokens, interestRates, userLoans, approved >>
    /\ UNCHANGED nonLendingVars

\* withdraw that pays out without debiting the account
withdrawKeepsBalance(sender, t, amt) ==
    /\ ~lEntered              \* nonReentrant
    /\ amt > 0
    /\ userDeposits[sender][t] >= amt
    /\ totalDeposits[t] >= amt
    /\ CanPush(t, amt)
    /\ totalDeposits' = [totalDeposits EXCEPT ![t] = @ - amt]
    /\ tokenBalance' = Moved(tokenBalance, t, Pool, sender, amt)
    /\ UNCHANGED << now, supportedTokens, interestRates, userLoans, approved,
                    userDeposits >>
    /\ UNCHANGED nonLendingVars

\* withdraw restricted to supported tokens
withdrawOnlySupported(sender, t, amt) ==
    /\ ~lEntered              \* nonReentrant
    /\ supportedTokens[t]
    /\ amt > 0
    /\ userDeposits[sender][t] >= amt
    /\ totalDeposits[t] >= amt
    /\ CanPush(t, amt)
    /\ userDeposits' = [userDeposits EXCEPT ![sender][t] = @ - amt]
    /\ totalDeposits' = [totalDeposits EXCEPT ![t] = @ - amt]
    /\ tokenBalance' = Moved(tokenBalance, t, Pool, sender, amt)
    /\ UNCHANGED << now, supportedTokens, interestRates, userLoans, approved >>
    /\ UNCHANGED nonLendingVars

withdraw(sender, t, amt) ==
    /\ ~lEntered              \* nonReentrant
    /\ amt > 0
    /\ userDeposits[sender][t] >= amt
    /\ totalDeposits[t] >= amt          \* SafeMath.sub reverts on underflow
    /\ CanPush(t, amt)
    /\ userDeposits' = [userDeposits EXCEPT ![sender][t] = @ - amt]
    /\ totalDeposits' = [totalDeposits EXCEPT ![t] = @ - amt]
    /\ tokenBalance' = Moved(tokenBalance, t, Pool, sender, amt)
    /\ UNCHANGED << now, supportedTokens, interestRates, userLoans, approved >>
    /\ UNCHANGED nonLendingVars

\* the lookup made for real: the tier the oracle's getRiskTier returns
getRiskTierFromRegistry(user) ==
    IF userRiskTiers[user] = "LOW" THEN "MEDIUM" ELSE userRiskTiers[user]

getRiskTierFromOracle(user) == "MEDIUM"

\* borrow without the "Existing loan active" check
borrowOverActiveLoan(sender, t, amt) ==
    /\ ~lEntered              \* nonReentrant
    /\ supportedTokens[t]
    /\ amt > 0
    /\ totalDeposits[t] >= amt
    /\ CanPush(t, amt)
    /\ userLoans' = [userLoans EXCEPT ![sender][t] =
                        [amount |-> amt, timestamp |-> now,
                         riskTier |-> getRiskTierFromOracle(sender), active |-> TRUE]]
    /\ totalDeposits' = [totalDeposits EXCEPT ![t] = @ - amt]
    /\ tokenBalance' = Moved(tokenBalance, t, Pool, sender, amt)
    /\ UNCHANGED << now, supportedTokens, interestRates, userDeposits, approved >>
    /\ UNCHANGED nonLendingVars

\* borrow that checks the liquidity with > instead of >=
borrowStrictLiquidity(sender, t, amt) ==
    /\ ~lEntered              \* nonReentrant
    /\ supportedTokens[t]
    /\ amt > 0
    /\ totalDeposits[t] > amt
    /\ ~userLoans[sender][t].active
    /\ CanPush(t, amt)
    /\ userLoans' = [userLoans EXCEPT ![sender][t] =
                        [amount |-> amt, timestamp |-> now,
                         riskTier |-> getRiskTierFromOracle(sender), active |-> TRUE]]
    /\ totalDeposits' = [totalDeposits EXCEPT ![t] = @ - amt]
    /\ tokenBalance' = Moved(tokenBalance, t, Pool, sender, amt)
    /\ UNCHANGED << now, supportedTokens, interestRates, userDeposits, approved >>
    /\ UNCHANGED nonLendingVars

\* borrow that pays out without debiting the asset total
borrowKeepsTotal(sender, t, amt) ==
    /\ ~lEntered              \* nonReentrant
    /\ supportedTokens[t]
    /\ amt > 0
    /\ totalDeposits[t] >= amt
    /\ ~userLoans[sender][t].active
    /\ CanPush(t, amt)
    /\ userLoans' = [userLoans EXCEPT ![sender][t] =
                        [amount |-> amt, timestamp |-> now,
                         riskTier |-> getRiskTierFromOracle(sender), active |-> TRUE]]
    /\ tokenBalance' = Moved(tokenBalance, t, Pool, sender, amt)
    /\ UNCHANGED << now, supportedTokens, interestRates, userDeposits, approved,
                    totalDeposits >>
    /\ UNCHANGED nonLendingVars

borrow(sender, t, amt) ==
    /\ ~lEntered              \* nonReentrant
    /\ supportedTokens[t]
    /\ amt > 0
    /\ totalDeposits[t] >= amt
    /\ ~userLoans[sender][t].active
    /\ CanPush(t, amt)
    /\ userLoans' = [userLoans EXCEPT ![sender][t] =
                        [amount |-> amt, timestamp |-> now,
                         riskTier |-> getRiskTierFromOracle(sender), active |-> TRUE]]
    /\ totalDeposits' = [totalDeposits EXCEPT ![t] = @ - amt]
    /\ tokenBalance' = Moved(tokenBalance, t, Pool, sender, amt)
    /\ UNCHANGED << now, supportedTokens, interestRates, userDeposits, approved >>
    /\ UNCHANGED nonLendingVars

\* annualRate.mul(1e18).div(31536000).div(10000); the division by 31536000 is
\* done as /1000 then /31536, which floors to the same value
perSecondRate(annualRate) ==
    BDivSmall(BDivSmall(BDivSmall(BMul(ToBig(annualRate), E18), 1000), 31536),
              10000)

\* _amount.mul(perSecondRate).mul(_timeElapsed).div(1e18); the division by 1e18
\* is done as /1e5 three times then /1e3, which floors to the same value
InterestAtRate(amt, timeElapsed, annualRate) ==
    LET product == BMul(BMul(ToBig(amt), perSecondRate(annualRate)), ToBig(timeElapsed))
    IN FromBig(BDivSmall(BDivSmall(BDivSmall(BDivSmall(product, 100000), 100000),
                                   100000), 1000))

\* calculateInterest rounded up to the next unit
calculateInterestRoundsUp(amt, timeElapsed, tier) ==
    InterestAtRate(amt, timeElapsed, interestRates[tier]) + 1

\* calculateInterest at the rates the pool was deployed with
calculateInterestAtDeployedRates(amt, timeElapsed, tier) ==
    InterestAtRate(amt, timeElapsed, [LOW |-> 500, MEDIUM |-> 1000, HIGH |-> 1500][tier])

calculateInterest(amt, timeElapsed, tier) ==
    InterestAtRate(amt, timeElapsed, interestRates[tier])

\* repay that credits the pool total with the principal only
repayCreditsPrincipalOnly(sender, t) ==
    LET loan == userLoans[sender][t]
        timeElapsed == now - loan.timestamp
        interest == calculateInterest(loan.amount, timeElapsed, loan.riskTier)
        totalRepayment == loan.amount + interest
    IN /\ ~lEntered           \* nonReentrant
       /\ loan.active
       /\ timeElapsed >= 0
       /\ t \in Tokens
       /\ tokenBalance[t][sender] >= totalRepayment
       /\ CanPull(t, sender, totalRepayment)
       /\ tokenBalance' = Moved(tokenBalance, t, sender, Pool, totalRepayment)
       /\ totalDeposits' = [totalDeposits EXCEPT ![t] = @ + loan.amount]
       /\ userLoans' = [userLoans EXCEPT ![sender][t].active = FALSE]
       /\ UNCHANGED << now, supportedTokens, interestRates, userDeposits, approved >>
       /\ UNCHANGED nonLendingVars

\* repay charging the rate of the tier the oracle stores at repayment
repayAtRegistryTier(sender, t) ==
    LET loan == userLoans[sender][t]
        timeElapsed == now - loan.timestamp
        interest == calculateInterest(loan.amount, timeElapsed, userRiskTiers[sender])
        totalRepayment == loan.amount + interest
    IN /\ ~lEntered           \* nonReentrant
       /\ loan.active
       /\ timeElapsed >= 0
       /\ t \in Tokens
       /\ tokenBalance[t][sender] >= totalRepayment
       /\ CanPull(t, sender, totalRepayment)
       /\ tokenBalance' = Moved(tokenBalance, t, sender, Pool, totalRepayment)
       /\ totalDeposits' = [totalDeposits EXCEPT ![t] = @ + totalRepayment]
       /\ userLoans' = [userLoans EXCEPT ![sender][t].active = FALSE]
       /\ UNCHANGED << now, supportedTokens, interestRates, userDeposits, approved >>
       /\ UNCHANGED nonLendingVars

\* repay erasing the loan record
repayDeletesLoan(sender, t) ==
    LET loan == userLoans[sender][t]
        timeElapsed == now - loan.timestamp
        interest == calculateInterest(loan.amount, timeElapsed, loan.riskTier)
        totalRepayment == loan.amount + interest
    IN /\ ~lEntered           \* nonReentrant
       /\ loan.active
       /\ timeElapsed >= 0
       /\ t \in Tokens
       /\ tokenBalance[t][sender] >= totalRepayment
       /\ CanPull(t, sender, totalRepayment)
       /\ tokenBalance' = Moved(tokenBalance, t, sender, Pool, totalRepayment)
       /\ totalDeposits' = [totalDeposits EXCEPT ![t] = @ + totalRepayment]
       /\ userLoans' = [userLoans EXCEPT ![sender][t] = NoLoan]
       /\ UNCHANGED << now, supportedTokens, interestRates, userDeposits, approved >>
       /\ UNCHANGED nonLendingVars

\* repay that books the interest on the borrower's deposit balance
repayCreditsDepositor(sender, t) ==
    LET loan == userLoans[sender][t]
        timeElapsed == now - loan.timestamp
        interest == calculateInterest(loan.amount, timeElapsed, loan.riskTier)
        totalRepayment == loan.amount + interest
    IN /\ ~lEntered           \* nonReentrant
       /\ loan.active
       /\ timeElapsed >= 0
       /\ t \in Tokens
       /\ tokenBalance[t][sender] >= totalRepayment
       /\ CanPull(t, sender, totalRepayment)
       /\ tokenBalance' = Moved(tokenBalance, t, sender, Pool, totalRepayment)
       /\ totalDeposits' = [totalDeposits EXCEPT ![t] = @ + totalRepayment]
       /\ userLoans' = [userLoans EXCEPT ![sender][t].active = FALSE]
       /\ userDeposits' = [userDeposits EXCEPT ![sender][t] = @ + interest]
       /\ UNCHANGED << now, supportedTokens, interestRates, approved >>
       /\ UNCHANGED nonLendingVars

repay(sender, t) ==
    LET loan == userLoans[sender][t]
        timeElapsed == now - loan.timestamp
        interest == calculateInterest(loan.amount, timeElapsed, loan.riskTier)
        totalRepayment == loan.amount + interest
    IN /\ ~lEntered           \* nonReentrant
       /\ loan.active
       /\ timeElapsed >= 0
       /\ t \in Tokens
       /\ tokenBalance[t][sender] >= totalRepayment
       /\ CanPull(t, sender, totalRepayment)
       /\ tokenBalance' = Moved(tokenBalance, t, sender, Pool, totalRepayment)
       /\ totalDeposits' = [totalDeposits EXCEPT ![t] = @ + totalRepayment]
       /\ userLoans' = [userLoans EXCEPT ![sender][t].active = FALSE]
       /\ UNCHANGED << now, supportedTokens, interestRates, userDeposits, approved >>
       /\ UNCHANGED nonLendingVars

\* the user calls IERC20.approve(pool, type(uint256).max) on the token
approve(user, t) ==
    /\ ~approved[t][user]
    /\ approved' = [approved EXCEPT ![t][user] = TRUE]
    /\ UNCHANGED << now, supportedTokens, interestRates, userDeposits, userLoans,
                    totalDeposits, tokenBalance >>
    /\ UNCHANGED nonLendingVars

\* a later block: block.timestamp advances
Tick(d) ==
    /\ now + d <= StartTime + MaxYears * SecondsPerYear
    /\ now' = now + d
    /\ UNCHANGED << supportedTokens, interestRates, userDeposits, userLoans,
                    totalDeposits, tokenBalance, approved >>
    /\ UNCHANGED nonLendingVars

LendingNext ==
    \/ \E c \in Callers, t \in TokenAddrs : addSupportedToken(c, t)
    \/ \E c \in Callers, t \in TokenAddrs : removeSupportedToken(c, t)
    \/ \E c \in Callers, r \in RateTiers, n \in NewRates : updateInterestRate(c, r, n)
    \/ \E c \in DepositCalls, t \in TokenAddrs : deposit(c[1], t, c[2])
    \/ \E c \in WithdrawCalls, t \in TokenAddrs : withdraw(c[1], t, c[2])
    \/ \E c \in BorrowCalls, t \in TokenAddrs : borrow(c[1], t, c[2])
    \/ \E u \in Users, t \in TokenAddrs : repay(u, t)
    \/ \E u \in Users, t \in Tokens : approve(u, t)
    \/ \E d \in TimeSteps : Tick(d)

(***************************************************************************)
(* Remittance ledger                                                       *)
(***************************************************************************)
Remit == "Remit"            \* address(this) of AIFiRemittance
Holders == Users \cup {Owner, Remit}
CountryCodes == {"US", "MX", ""}
MaxTransfers == 2
TransferIds == 0 .. (MaxTransfers + 1)
TransferIdCalls == 1 .. (MaxTransfers + 1)

\* n whole tokens of 18 decimals
Tok(n) == BMul(ToBig(n), E18)

\* the calls tried
TransferAmounts == {Tok(1000), ToBig(1999), Tok(20000)}
InitiateCalls ==
    {<<u, "X", a, "r1", "US", "MX">> : u \in Users, a \in TransferAmounts}
      \cup {<<"A", "X", Tok(1000), "", "US", "MX">>,
            <<"A", "X", Tok(1000), "r1", "", "MX">>,
            <<"A", "X", Tok(1000), "r1", "US", "">>,
            <<"A", ZeroAddress, Tok(1000), "r1", "US", "MX">>}
CorridorCalls == {<<"US", "MX", 80>>, <<"US", "MX", 501>>, <<"", "MX", 80>>,
                  <<"US", "", 80>>}
DefaultFees == {0, 501}
LimitCalls == {<<ToBig(1), Tok(2000)>>, <<Tok(10), Tok(10)>>}
TreasuryCalls == {"A", Remit, ZeroAddress}
RemitApprovers == {"A"}

RInitialHolding(t, h) ==
    IF h = "A" THEN Tok(1500)
    ELSE IF h = "B" THEN Tok(1500)
    ELSE << >>

NoTransfer ==
    [id |-> 0, sender |-> ZeroAddress, recipientId |-> "", tokenAddress |-> ZeroAddress,
     amount |-> << >>, fee |-> << >>, originCountry |-> "", destinationCountry |-> "",
     timestamp |-> 0, status |-> "PENDING"]

RemitInit ==
    /\ rSupportedTokens = [t \in TokenAddrs |-> FALSE]
    /\ corridorFees = [o \in CountryCodes |-> [d \in CountryCodes |-> 0]]
    /\ defaultFee = 50
    /\ minTransferAmount = Tok(10)
    /\ maxTransferAmount = Tok(10000)
    /\ transferCounter = 1
    /\ transfers = [i \in TransferIds |-> NoTransfer]
    /\ userTransfers = [u \in Callers |-> << >>]
    /\ treasury = Owner
    /\ rBalance = [t \in Tokens |-> [h \in Holders |-> RInitialHolding(t, h)]]
    /\ rApproved = [t \in Tokens |-> [u \in Users |-> FALSE]]

BMoved(bal, t, from, to, amt) ==
    [bal EXCEPT ![t][from] = BSub(@, amt), ![t][to] = BAdd(@, amt)]

rAddSupportedToken(caller, t) ==
    /\ caller = Owner
    /\ t # ZeroAddress
    /\ ~rSupportedTokens[t]
    /\ rSupportedTokens' = [rSupportedTokens EXCEPT ![t] = TRUE]
    /\ UNCHANGED << corridorFees, defaultFee, minTransferAmount, maxTransferAmount,
                    transferCounter, transfers, userTransfers, treasury, rBalance,
                    rApproved >>
    /\ UNCHANGED nonRemitVars

rRemoveSupportedToken(caller, t) ==
    /\ caller = Owner
    /\ rSupportedTokens[t]
    /\ rSupportedTokens' = [rSupportedTokens EXCEPT ![t] = FALSE]
    /\ UNCHANGED << corridorFees, defaultFee, minTransferAmount, maxTransferAmount,
                    transferCounter, transfers, userTransfers, treasury, rBalance,
                    rApproved >>
    /\ UNCHANGED nonRemitVars

updateCorridorFee(caller, origin, destination, fee) ==
    /\ caller = Owner
    /\ origin # ""
    /\ destination # ""
    /\ fee <= 500
    /\ corridorFees' = [corridorFees EXCEPT ![origin][destination] = fee]
    /\ UNCHANGED << rSupportedTokens, defaultFee, minTransferAmount, maxTransferAmount,
                    transferCounter, transfers, userTransfers, treasury, rBalance,
                    rApproved >>
    /\ UNCHANGED nonRemitVars

\* updateDefaultFee without its cap
updateDefaultFeeUncapped(caller, fee) ==
    /\ caller = Owner
    /\ defaultFee' = fee
    /\ UNCHANGED << rSupportedTokens, corridorFees, minTransferAmount, maxTransferAmount,
                    transferCounter, transfers, userTransfers, treasury, rBalance,
                    rApproved >>
    /\ UNCHANGED nonRemitVars

updateDefaultFee(caller, fee) ==
    /\ caller = Owner
    /\ fee <= 500
    /\ defaultFee' = fee
    /\ UNCHANGED << rSupportedTokens, corridorFees, minTransferAmount, maxTransferAmount,
                    transferCounter, transfers, userTransfers, treasury, rBalance,
                    rApproved >>
    /\ UNCHANGED nonRemitVars

updateTransferLimits(caller, minAmount, maxAmount) ==
    /\ caller = Owner
    /\ BLt(minAmount, maxAmount)
    /\ minTransferAmount' = minAmount
    /\ maxTransferAmount' = maxAmount
    /\ UNCHANGED << rSupportedTokens, corridorFees, defaultFee, transferCounter,
                    transfers, userTransfers, treasury, rBalance, rApproved >>
    /\ UNCHANGED nonRemitVars

\* updateTreasury without onlyOwner
updateTreasuryByAnyone(caller, newTreasury) ==
    /\ newTreasury # ZeroAddress
    /\ treasury' = newTreasury
    /\ UNCHANGED << rSupportedTokens, corridorFees, defaultFee, minTransferAmount,
                    maxTransferAmount, transferCounter, transfers, userTransfers,
                    rBalance, rApproved >>
    /\ UNCHANGED nonRemitVars

updateTreasury(caller, newTreasury) ==
    /\ caller = Owner
    /\ newTreasury # ZeroAddress
    /\ treasury' = newTreasury
    /\ UNCHANGED << rSupportedTokens, corridorFees, defaultFee, minTransferAmount,
                    maxTransferAmount, transferCounter, transfers, userTransfers,
                    rBalance, rApproved >>
    /\ UNCHANGED nonRemitVars

calculateFee(origin, destination, amount) ==
    LET feeRate == IF corridorFees[origin][destination] = 0
                   THEN defaultFee
                   ELSE corridorFees[origin][destination]
    IN BDivSmall(BMul(amount, ToBig(feeRate)), 10000)

\* initiateTransfer without the "Amount below minimum" check
initiateNoMinimum(sender, tokenAddress, amount, recipientId, originCountry, destinationCountry) ==
    LET fee == calculateFee(originCountry, destinationCountry, amount)
        totalAmount == BAdd(amount, fee)
        transferId == transferCounter
        pulled == BMoved(rBalance, tokenAddress, sender, Remit, totalAmount)
    IN /\ ~rEntered           \* nonReentrant
       /\ rSupportedTokens[tokenAddress]
       /\ BLe(amount, maxTransferAmount)
       /\ recipientId # ""
       /\ originCountry # ""
       /\ destinationCountry # ""
       /\ BLe(totalAmount, rBalance[tokenAddress][sender])
       /\ transferCounter <= MaxTransfers
       /\ rApproved[tokenAddress][sender]
       /\ transferCounter' = transferCounter + 1
       /\ transfers' = [transfers EXCEPT ![transferId] =
              [id |-> transferId, sender |-> sender, recipientId |-> recipientId,
               tokenAddress |-> tokenAddress, amount |-> amount, fee |-> fee,
               originCountry |-> originCountry,
               destinationCountry |-> destinationCountry,
               timestamp |-> now, status |-> "PENDING"]]
       /\ userTransfers' = [userTransfers EXCEPT ![sender] = Append(@, transferId)]
       /\ rBalance' = BMoved(pulled, tokenAddress, Remit, treasury, fee)
       /\ UNCHANGED << rSupportedTokens, corridorFees, defaultFee, minTransferAmount,
                       maxTransferAmount, treasury, rApproved >>
       /\ UNCHANGED nonRemitVars

\* initiateTransfer that takes the id after advancing the counter
initiateIdAfterIncrement(sender, tokenAddress, amount, recipientId, originCountry, destinationCountry) ==
    LET fee == calculateFee(originCountry, destinationCountry, amount)
        totalAmount == BAdd(amount, fee)
        transferId == transferCounter + 1
        pulled == BMoved(rBalance, tokenAddress, sender, Remit, totalAmount)
    IN /\ ~rEntered           \* nonReentrant
       /\ rSupportedTokens[tokenAddress]
       /\ BLe(minTransferAmount, amount)
       /\ BLe(amount, maxTransferAmount)
       /\ recipientId # ""
       /\ originCountry # ""
       /\ destinationCountry # ""
       /\ BLe(totalAmount, rBalance[tokenAddress][sender])
       /\ transferCounter <= MaxTransfers
       /\ rApproved[tokenAddress][sender]
       /\ transferCounter' = transferCounter + 1
       /\ transfers' = [transfers EXCEPT ![transferId] =
              [id |-> transferId, sender |-> sender, recipientId |-> recipientId,
               tokenAddress |-> tokenAddress, amount |-> amount, fee |-> fee,
               originCountry |-> originCountry,
               destinationCountry |-> destinationCountry,
               timestamp |-> now, status |-> "PENDING"]]
       /\ userTransfers' = [userTransfers EXCEPT ![sender] = Append(@, transferId)]
       /\ rBalance' = BMoved(pulled, tokenAddress, Remit, treasury, fee)
       /\ UNCHANGED << rSupportedTokens, corridorFees, defaultFee, minTransferAmount,
                       maxTransferAmount, treasury, rApproved >>
       /\ UNCHANGED nonRemitVars

\* initiateTransfer that keeps the fee in the ledger instead of forwarding it
initiateKeepsFee(sender, tokenAddress, amount, recipientId, originCountry, destinationCountry) ==
    LET fee == calculateFee(originCountry, destinationCountry, amount)
        totalAmount == BAdd(amount, fee)
        transferId == transferCounter
    IN /\ ~rEntered           \* nonReentrant
       /\ rSupportedTokens[tokenAddress]
       /\ BLe(minTransferAmount, amount)
       /\ BLe(amount, maxTransferAmount)
       /\ recipientId # ""
       /\ originCountry # ""
       /\ destinationCountry # ""
       /\ BLe(totalAmount, rBalance[tokenAddress][sender])
       /\ transferCounter <= MaxTransfers
       /\ rApproved[tokenAddress][sender]
       /\ transferCounter' = transferCounter + 1
       /\ transfers' = [transfers EXCEPT ![transferId] =
              [id |-> transferId, sender |-> sender, recipientId |-> recipientId,
               tokenAddress |-> tokenAddress, amount |-> amount, fee |-> fee,
               originCountry |-> originCountry,
               destinationCountry |-> destinationCountry,
               timestamp |-> now, status |-> "PENDING"]]
       /\ userTransfers' = [userTransfers EXCEPT ![sender] = Append(@, transferId)]
       /\ rBalance' = BMoved(rBalance, tokenAddress, sender, Remit, totalAmount)
       /\ UNCHANGED << rSupportedTokens, corridorFees, defaultFee, minTransferAmount,
                       maxTransferAmount, treasury, rApproved >>
       /\ UNCHANGED nonRemitVars

initiateTransfer(sender, tokenAddress, amount, recipientId, originCountry, destinationCountry) ==
    LET fee == calculateFee(originCountry, destinationCountry, amount)
        totalAmount == BAdd(amount, fee)
        transferId == transferCounter
        pulled == BMoved(rBalance, tokenAddress, sender, Remit, totalAmount)
    IN /\ ~rEntered           \* nonReentrant
       /\ rSupportedTokens[tokenAddress]
       /\ BLe(minTransferAmount, amount)
       /\ BLe(amount, maxTransferAmount)
       /\ recipientId # ""
       /\ originCountry # ""
       /\ destinationCountry # ""
       /\ BLe(totalAmount, rBalance[tokenAddress][sender])
       /\ transferCounter <= MaxTransfers
       /\ rApproved[tokenAddress][sender]     \* safeTransferFrom needs the allowance
       /\ transferCounter' = transferCounter + 1
       /\ transfers' = [transfers EXCEPT ![transferId] =
              [id |-> transferId, sender |-> sender, recipientId |-> recipientId,
               tokenAddress |-> tokenAddress, amount |-> amount, fee |-> fee,
               originCountry |-> originCountry,
               destinationCountry |-> destinationCountry,
               timestamp |-> now, status |-> "PENDING"]]
       /\ userTransfers' = [userTransfers EXCEPT ![sender] = Append(@, transferId)]
       /\ rBalance' = BMoved(pulled, tokenAddress, Remit, treasury, fee)
       /\ UNCHANGED << rSupportedTokens, corridorFees, defaultFee, minTransferAmount,
                       maxTransferAmount, treasury, rApproved >>
       /\ UNCHANGED nonRemitVars

\* completeTransfer that pays the escrowed principal out to the administrator
completeReleasesEscrow(caller, transferId) ==
    /\ caller = Owner
    /\ transfers[transferId].id = transferId
    /\ transfers[transferId].status = "PENDING"
    /\ transfers[transferId].tokenAddress \in Tokens
    /\ BLe(transfers[transferId].amount, rBalance[transfers[transferId].tokenAddress][Remit])
    /\ transfers' = [transfers EXCEPT ![transferId].status = "COMPLETED"]
    /\ rBalance' = BMoved(rBalance, transfers[transferId].tokenAddress, Remit, Owner,
                          transfers[transferId].amount)
    /\ UNCHANGED << rSupportedTokens, corridorFees, defaultFee, minTransferAmount,
                    maxTransferAmount, transferCounter, userTransfers, treasury,
                    rApproved >>
    /\ UNCHANGED nonRemitVars

completeTransfer(caller, transferId) ==
    /\ caller = Owner
    /\ transfers[transferId].id = transferId
    /\ transfers[transferId].status = "PENDING"
    /\ transfers' = [transfers EXCEPT ![transferId].status = "COMPLETED"]
    /\ UNCHANGED << rSupportedTokens, corridorFees, defaultFee, minTransferAmount,
                    maxTransferAmount, transferCounter, userTransfers, treasury,
                    rBalance, rApproved >>
    /\ UNCHANGED nonRemitVars

\* cancelTransfer without the "Not authorized" check
cancelByAnyone(caller, transferId) ==
    LET transfer == transfers[transferId]
    IN /\ ~rEntered           \* nonReentrant
       /\ transfer.id = transferId
       /\ transfer.status = "PENDING"
       /\ transfer.tokenAddress \in Tokens
       /\ BLe(transfer.amount, rBalance[transfer.tokenAddress][Remit])
       /\ transfers' = [transfers EXCEPT ![transferId].status = "CANCELLED"]
       /\ rBalance' = BMoved(rBalance, transfer.tokenAddress, Remit, transfer.sender,
                             transfer.amount)
       /\ UNCHANGED << rSupportedTokens, corridorFees, defaultFee, minTransferAmount,
                       maxTransferAmount, transferCounter, userTransfers, treasury,
                       rApproved >>
       /\ UNCHANGED nonRemitVars

\* cancelTransfer without the "Transfer not pending" check
cancelAnyStatus(caller, transferId) ==
    LET transfer == transfers[transferId]
    IN /\ ~rEntered           \* nonReentrant
       /\ transfer.id = transferId
       /\ (caller = transfer.sender \/ caller = Owner)
       /\ transfer.tokenAddress \in Tokens
       /\ BLe(transfer.amount, rBalance[transfer.tokenAddress][Remit])
       /\ transfers' = [transfers EXCEPT ![transferId].status = "CANCELLED"]
       /\ rBalance' = BMoved(rBalance, transfer.tokenAddress, Remit, transfer.sender,
                             transfer.amount)
       /\ UNCHANGED << rSupportedTokens, corridorFees, defaultFee, minTransferAmount,
                       maxTransferAmount, transferCounter, userTransfers, treasury,
                       rApproved >>
       /\ UNCHANGED nonRemitVars

\* cancelTransfer that refunds the fee along with the principal
cancelRefundsFee(caller, transferId) ==
    LET transfer == transfers[transferId]
        refund == BAdd(transfer.amount, transfer.fee)
    IN /\ ~rEntered           \* nonReentrant
       /\ transfer.id = transferId
       /\ transfer.status = "PENDING"
       /\ (caller = transfer.sender \/ caller = Owner)
       /\ transfer.tokenAddress \in Tokens
       /\ BLe(refund, rBalance[transfer.tokenAddress][Remit])
       /\ transfers' = [transfers EXCEPT ![transferId].status = "CANCELLED"]
       /\ rBalance' = BMoved(rBalance, transfer.tokenAddress, Remit, transfer.sender,
                             refund)
       /\ UNCHANGED << rSupportedTokens, corridorFees, defaultFee, minTransferAmount,
                       maxTransferAmount, transferCounter, userTransfers, treasury,
                       rApproved >>
       /\ UNCHANGED nonRemitVars

\* cancelTransfer that marks the transfer CANCELLED and keeps the principal
cancelKeepsEscrow(caller, transferId) ==
    LET transfer == transfers[transferId]
    IN /\ ~rEntered           \* nonReentrant
       /\ transfer.id = transferId
       /\ transfer.status = "PENDING"
       /\ (caller = transfer.sender \/ caller = Owner)
       /\ transfer.tokenAddress \in Tokens
       /\ transfers' = [transfers EXCEPT ![transferId].status = "CANCELLED"]
       /\ UNCHANGED << rSupportedTokens, corridorFees, defaultFee, minTransferAmount,
                       maxTransferAmount, transferCounter, userTransfers, treasury,
                       rBalance, rApproved >>
       /\ UNCHANGED nonRemitVars

cancelReentrant(caller, transferId) ==
    LET transfer == transfers[transferId]
    IN /\ transfer.id = transferId
       /\ transfer.status = "PENDING"
       /\ (caller = transfer.sender \/ caller = Owner)
       /\ transfer.tokenAddress \in Tokens
       /\ BLe(transfer.amount, rBalance[transfer.tokenAddress][Remit])
       /\ transfers' = [transfers EXCEPT ![transferId].status = "CANCELLED"]
       /\ rBalance' = BMoved(rBalance, transfer.tokenAddress, Remit, transfer.sender,
                             transfer.amount)
       /\ UNCHANGED << rSupportedTokens, corridorFees, defaultFee, minTransferAmount,
                       maxTransferAmount, transferCounter, userTransfers, treasury,
                       rApproved >>
       /\ UNCHANGED nonRemitVars

cancelTransfer(caller, transferId) ==
    LET transfer == transfers[transferId]
    IN /\ ~rEntered           \* nonReentrant
       /\ transfer.id = transferId
       /\ transfer.status = "PENDING"
       /\ (caller = transfer.sender \/ caller = Owner)
       /\ transfer.tokenAddress \in Tokens    \* SafeERC20 reverts on a non-contract
       /\ BLe(transfer.amount, rBalance[transfer.tokenAddress][Remit])
       /\ transfers' = [transfers EXCEPT ![transferId].status = "CANCELLED"]
       /\ rBalance' = BMoved(rBalance, transfer.tokenAddress, Remit, transfer.sender,
                             transfer.amount)
       /\ UNCHANGED << rSupportedTokens, corridorFees, defaultFee, minTransferAmount,
                       maxTransferAmount, transferCounter, userTransfers, treasury,
                       rApproved >>
       /\ UNCHANGED nonRemitVars

\* the user calls IERC20.approve(ledger, type(uint256).max) on the token
rApprove(user, t) ==
    /\ ~rApproved[t][user]
    /\ rApproved' = [rApproved EXCEPT ![t][user] = TRUE]
    /\ UNCHANGED << rSupportedTokens, corridorFees, defaultFee, minTransferAmount,
                    maxTransferAmount, transferCounter, transfers, userTransfers,
                    treasury, rBalance >>
    /\ UNCHANGED nonRemitVars

\* getTransfer: a view, it returns the record when its require passes
getTransferCall(transferId) ==
    /\ transfers[transferId].id = transferId
    /\ UNCHANGED vars

RemitNext ==
    \/ \E c \in Callers, t \in TokenAddrs : rAddSupportedToken(c, t)
    \/ \E c \in Callers, t \in TokenAddrs : rRemoveSupportedToken(c, t)
    \/ \E c \in Callers, k \in CorridorCalls : updateCorridorFee(c, k[1], k[2], k[3])
    \/ \E c \in Callers, f \in DefaultFees : updateDefaultFee(c, f)
    \/ \E c \in Callers, l \in LimitCalls : updateTransferLimits(c, l[1], l[2])
    \/ \E c \in Callers, a \in TreasuryCalls : updateTreasury(c, a)
    \/ \E k \in InitiateCalls : initiateTransfer(k[1], k[2], k[3], k[4], k[5], k[6])
    \/ \E c \in Callers, i \in TransferIdCalls : completeTransfer(c, i)
    \/ \E c \in Callers, i \in TransferIdCalls : cancelTransfer(c, i)
    \/ \E u \in RemitApprovers, t \in Tokens : rApprove(u, t)

(***************************************************************************)
(* calculateInterest called as a view function                             *)
(***************************************************************************)
NoCall == [called |-> FALSE]
CalcAmounts == {0, 1, 150, 400, 1000}
CalcElapsed == {0, 1, 86400, 15768000, 31536000, 63072000}
CalcRates == {0, 2000, 5001}

calculateInterestCall(amt, timeElapsed, tier) ==
    /\ calcResult' = [called |-> TRUE, amount |-> amt, timeElapsed |-> timeElapsed,
                      riskTier |-> tier, rate |-> interestRates[tier],
                      value |-> calculateInterest(amt, timeElapsed, tier)]
    /\ UNCHANGED << lendingVars, remitVars, oracleVars, voiceVars, guardVars, feeResult >>

CalcNext ==
    \/ \E c \in Callers, r \in RateTiers, n \in CalcRates : updateInterestRate(c, r, n)
    \/ \E a \in CalcAmounts, e \in CalcElapsed, r \in RiskTier :
          calculateInterestCall(a, e, r)

(***************************************************************************)
(* calculateFee called as a view function                                  *)
(***************************************************************************)
FeeAmounts == {<< >>, ToBig(1999), ToBig(10000), Tok(1000)}
FeeCorridorCalls == {<<"US", "MX", 0>>, <<"US", "MX", 80>>, <<"US", "MX", 500>>,
                     <<"MX", "US", 80>>, <<"US", "MX", 501>>}
FeeDefaultFees == {0, 500, 501}

\* calculateFee that stores the default rate for a corridor it finds unset
calculateFeeCachesRate(origin, destination, amount) ==
    /\ feeResult' = [called |-> TRUE, origin |-> origin, destination |-> destination,
                     amount |-> amount,
                     value |-> calculateFee(origin, destination, amount)]
    /\ corridorFees' = [corridorFees EXCEPT ![origin][destination] =
                           IF @ = 0 THEN defaultFee ELSE @]
    /\ UNCHANGED << rSupportedTokens, defaultFee, minTransferAmount, maxTransferAmount,
                    transferCounter, transfers, userTransfers, treasury, rBalance,
                    rApproved >>
    /\ UNCHANGED << lendingVars, oracleVars, voiceVars, guardVars, calcResult >>

calculateFeeCall(origin, destination, amount) ==
    /\ feeResult' = [called |-> TRUE, origin |-> origin, destination |-> destination,
                     amount |-> amount,
                     value |-> calculateFee(origin, destination, amount)]
    /\ UNCHANGED << lendingVars, remitVars, oracleVars, voiceVars, guardVars, calcResult >>

FeeNext ==
    \/ \E c \in Callers, k \in FeeCorridorCalls : updateCorridorFee(c, k[1], k[2], k[3])
    \/ \E c \in Callers, f \in FeeDefaultFees : updateDefaultFee(c, f)
    \/ \E c \in Callers, l \in LimitCalls : updateTransferLimits(c, l[1], l[2])
    \/ \E c \in Callers, a \in TreasuryCalls : updateTreasury(c, a)
    \/ \E o \in CountryCodes, d \in CountryCodes, a \in FeeAmounts :
          calculateFeeCall(o, d, a)

ViewInit == calcResult = NoCall /\ feeResult = NoCall

(***************************************************************************)
(* Risk oracle                                                             *)
(***************************************************************************)
OracleCallers == Callers \cup {Pool}
OracleUsers == Users \cup {ZeroAddress}
UpdaterCalls == {"A", ZeroAddress}
AuthorizeCalls == {"A", Pool, ZeroAddress}
BatchCalls == {<< <<"A", "B">>, <<"HIGH", "LOW">> >>,
               << <<"A", "A">>, <<"HIGH", "MEDIUM">> >>,
               << <<"B", ZeroAddress>>, <<"HIGH", "HIGH">> >>,
               << <<"A", "B">>, <<"HIGH">> >>}

\* uint8(RiskTier)
TierIndex(tier) == IF tier = "LOW" THEN 0 ELSE IF tier = "MEDIUM" THEN 1 ELSE 2

OracleInit ==
    /\ userRiskTiers = [u \in OracleUsers |-> "LOW"]
    /\ authorizedCallers = [c \in OracleCallers \cup {ZeroAddress} |-> FALSE]
    /\ aiOracleUpdater = Owner
    /\ tierResult = NoCall

setAIOracleUpdater(caller, newUpdater) ==
    /\ caller = Owner
    /\ newUpdater # ZeroAddress
    /\ aiOracleUpdater' = newUpdater
    /\ UNCHANGED << userRiskTiers, authorizedCallers, tierResult >>
    /\ UNCHANGED nonOracleVars

authorizeCaller(caller, c) ==
    /\ caller = Owner
    /\ c # ZeroAddress
    /\ ~authorizedCallers[c]
    /\ authorizedCallers' = [authorizedCallers EXCEPT ![c] = TRUE]
    /\ UNCHANGED << userRiskTiers, aiOracleUpdater, tierResult >>
    /\ UNCHANGED nonOracleVars

revokeCaller(caller, c) ==
    /\ caller = Owner
    /\ authorizedCallers[c]
    /\ authorizedCallers' = [authorizedCallers EXCEPT ![c] = FALSE]
    /\ UNCHANGED << userRiskTiers, aiOracleUpdater, tierResult >>
    /\ UNCHANGED nonOracleVars

\* onlyOracleUpdater widened to the owner
updateRiskTierByOwner(caller, user, riskTier) ==
    /\ (caller = aiOracleUpdater \/ caller = Owner)
    /\ user # ZeroAddress
    /\ userRiskTiers' = [userRiskTiers EXCEPT ![user] = riskTier]
    /\ UNCHANGED << authorizedCallers, aiOracleUpdater, tierResult >>
    /\ UNCHANGED nonOracleVars

updateRiskTier(caller, user, riskTier) ==
    /\ caller = aiOracleUpdater
    /\ user # ZeroAddress
    /\ userRiskTiers' = [userRiskTiers EXCEPT ![user] = riskTier]
    /\ UNCHANGED << authorizedCallers, aiOracleUpdater, tierResult >>
    /\ UNCHANGED nonOracleVars

\* the loop of batchUpdateRiskTiers from index i on
RECURSIVE BatchFrom(_, _, _, _)
BatchFrom(tiers, users, riskTiers, i) ==
    IF i > Len(users) THEN tiers
    ELSE BatchFrom([tiers EXCEPT ![users[i]] = riskTiers[i]], users, riskTiers, i + 1)

\* the loop without its check for the null account
batchAllowsNull(caller, users, riskTiers) ==
    /\ caller = aiOracleUpdater
    /\ Len(users) = Len(riskTiers)
    /\ userRiskTiers' = BatchFrom(userRiskTiers, users, riskTiers, 1)
    /\ UNCHANGED << authorizedCallers, aiOracleUpdater, tierResult >>
    /\ UNCHANGED nonOracleVars

batchUpdateRiskTiers(caller, users, riskTiers) ==
    /\ caller = aiOracleUpdater
    /\ Len(users) = Len(riskTiers)
    /\ \A i \in 1 .. Len(users) : users[i] # ZeroAddress
    /\ userRiskTiers' = BatchFrom(userRiskTiers, users, riskTiers, 1)
    /\ UNCHANGED << authorizedCallers, aiOracleUpdater, tierResult >>
    /\ UNCHANGED nonOracleVars

\* the body of getRiskTier
getRiskTier(user) ==
    IF user = ZeroAddress \/ userRiskTiers[user] = "LOW"
    THEN TierIndex("MEDIUM")
    ELSE TierIndex(userRiskTiers[user])

\* getRiskTier without the onlyAuthorized modifier
getRiskTierByAnyone(caller, user) ==
    /\ tierResult' = [called |-> TRUE, caller |-> caller, user |-> user,
                      value |-> getRiskTier(user)]
    /\ UNCHANGED << userRiskTiers, authorizedCallers, aiOracleUpdater >>
    /\ UNCHANGED nonOracleVars

getRiskTierCall(caller, user) ==
    /\ (authorizedCallers[caller] \/ caller = Owner)
    /\ tierResult' = [called |-> TRUE, caller |-> caller, user |-> user,
                      value |-> getRiskTier(user)]
    /\ UNCHANGED << userRiskTiers, authorizedCallers, aiOracleUpdater >>
    /\ UNCHANGED nonOracleVars

OracleNext ==
    \/ \E c \in OracleCallers, n \in UpdaterCalls : setAIOracleUpdater(c, n)
    \/ \E c \in OracleCallers, a \in AuthorizeCalls : authorizeCaller(c, a)
    \/ \E c \in OracleCallers, a \in AuthorizeCalls : revokeCaller(c, a)
    \/ \E c \in OracleCallers, u \in OracleUsers, r \in RiskTier :
          updateRiskTier(c, u, r)
    \/ \E c \in OracleCallers, b \in BatchCalls : batchUpdateRiskTiers(c, b[1], b[2])
    \/ \E c \in OracleCallers, u \in OracleUsers : getRiskTierCall(c, u)

(***************************************************************************)
(* AIFiVoiceInterface                                                      *)
(***************************************************************************)
ZeroHash == "0x00"          \* bytes32(0)
ZeroSelector == "0x"        \* bytes4(0)
CommandHashes == {"h1", "h2", ZeroHash}
NoAction == [targetContract |-> ZeroAddress, functionSelector |-> ZeroSelector, description |-> "", active |-> FALSE]
\* (hash, target contract, function selector, description)
RegisterCalls == {<<"h1", Pool, "deposit", "d1">>,
                  <<"h1", Remit, "initiateTransfer", "d2">>,
                  <<"h2", Pool, "deposit", "d1">>,
                  <<ZeroHash, Pool, "deposit", "d1">>,
                  <<"h1", ZeroAddress, "deposit", "d1">>,
                  <<"h1", Pool, ZeroSelector, "d1">>,
                  <<"h1", Pool, "deposit", "">>}
UpdateCalls == {<<"h1", Pool, "withdraw", "d3">>,
                <<"h2", Remit, "initiateTransfer", "d2">>,
                <<"h1", ZeroAddress, "withdraw", "d3">>,
                <<"h1", Pool, ZeroSelector, "d3">>,
                <<"h1", Pool, "withdraw", "">>}
ProcessorCalls == {"A", ZeroAddress}
Languages == {"en", "es", "pt", "fr", ""}
LanguageCalls == {"fr", "en", ""}

VoiceInit ==
    /\ actions = [h \in CommandHashes |-> NoAction]
    /\ supportedLanguages = [l \in Languages |-> l \in {"en", "es", "pt"}]
    /\ authorizedProcessors = [c \in Callers \cup {ZeroAddress} |-> FALSE]
    /\ commandResult = NoCall
    /\ hashResult = NoCall
    /\ prevHashResult = NoCall

\* registerAction that accepts only a hash no record was ever stored for
registerOnlyUnused(caller, commandHash, targetContract, functionSelector, description) ==
    /\ caller = Owner
    /\ commandHash # ZeroHash
    /\ targetContract # ZeroAddress
    /\ functionSelector # ZeroSelector
    /\ description # ""
    /\ actions[commandHash].targetContract = ZeroAddress
    /\ actions' = [actions EXCEPT ![commandHash] =
                      [targetContract |-> targetContract,
                       functionSelector |-> functionSelector,
                       description |-> description, active |-> TRUE]]
    /\ UNCHANGED << supportedLanguages, authorizedProcessors, commandResult, hashResult,
                    prevHashResult >>
    /\ UNCHANGED nonVoiceVars

\* registerAction without its check that the hash is not active
registerOverwrites(caller, commandHash, targetContract, functionSelector, description) ==
    /\ caller = Owner
    /\ commandHash # ZeroHash
    /\ targetContract # ZeroAddress
    /\ functionSelector # ZeroSelector
    /\ description # ""
    /\ actions' = [actions EXCEPT ![commandHash] =
                      [targetContract |-> targetContract,
                       functionSelector |-> functionSelector,
                       description |-> description, active |-> TRUE]]
    /\ UNCHANGED << supportedLanguages, authorizedProcessors, commandResult, hashResult,
                    prevHashResult >>
    /\ UNCHANGED nonVoiceVars

registerAction(caller, commandHash, targetContract, functionSelector, description) ==
    /\ caller = Owner
    /\ commandHash # ZeroHash
    /\ targetContract # ZeroAddress
    /\ functionSelector # ZeroSelector
    /\ description # ""
    /\ ~actions[commandHash].active
    /\ actions' = [actions EXCEPT ![commandHash] =
                      [targetContract |-> targetContract,
                       functionSelector |-> functionSelector,
                       description |-> description, active |-> TRUE]]
    /\ UNCHANGED << supportedLanguages, authorizedProcessors, commandResult, hashResult,
                    prevHashResult >>
    /\ UNCHANGED nonVoiceVars

updateAction(caller, commandHash, targetContract, functionSelector, description) ==
    /\ caller = Owner
    /\ actions[commandHash].active
    /\ targetContract # ZeroAddress
    /\ functionSelector # ZeroSelector
    /\ description # ""
    /\ actions' = [actions EXCEPT ![commandHash].targetContract = targetContract,
                                  ![commandHash].functionSelector = functionSelector,
                                  ![commandHash].description = description]
    /\ UNCHANGED << supportedLanguages, authorizedProcessors, commandResult, hashResult,
                    prevHashResult >>
    /\ UNCHANGED nonVoiceVars

deactivateAction(caller, commandHash) ==
    /\ caller = Owner
    /\ actions[commandHash].active
    /\ actions' = [actions EXCEPT ![commandHash].active = FALSE]
    /\ UNCHANGED << supportedLanguages, authorizedProcessors, commandResult, hashResult,
                    prevHashResult >>
    /\ UNCHANGED nonVoiceVars

addLanguage(caller, language) ==
    /\ caller = Owner
    /\ language # ""
    /\ ~supportedLanguages[language]
    /\ supportedLanguages' = [supportedLanguages EXCEPT ![language] = TRUE]
    /\ UNCHANGED << actions, authorizedProcessors, commandResult, hashResult,
                    prevHashResult >>
    /\ UNCHANGED nonVoiceVars

removeLanguage(caller, language) ==
    /\ caller = Owner
    /\ supportedLanguages[language]
    /\ supportedLanguages' = [supportedLanguages EXCEPT ![language] = FALSE]
    /\ UNCHANGED << actions, authorizedProcessors, commandResult, hashResult,
                    prevHashResult >>
    /\ UNCHANGED nonVoiceVars

authorizeProcessor(caller, processor) ==
    /\ caller = Owner
    /\ processor # ZeroAddress
    /\ ~authorizedProcessors[processor]
    /\ authorizedProcessors' = [authorizedProcessors EXCEPT ![processor] = TRUE]
    /\ UNCHANGED << actions, supportedLanguages, commandResult, hashResult, prevHashResult >>
    /\ UNCHANGED nonVoiceVars

revokeProcessor(caller, processor) ==
    /\ caller = Owner
    /\ authorizedProcessors[processor]
    /\ authorizedProcessors' = [authorizedProcessors EXCEPT ![processor] = FALSE]
    /\ UNCHANGED << actions, supportedLanguages, commandResult, hashResult, prevHashResult >>
    /\ UNCHANGED nonVoiceVars

\* the four values getAction returns; it has no modifier and no require
getAction(commandHash) ==
    << actions[commandHash].targetContract, actions[commandHash].functionSelector,
       actions[commandHash].description, actions[commandHash].active >>

\* the two values processCommand returns
processCommand(commandHash) ==
    << actions[commandHash].targetContract, actions[commandHash].functionSelector >>

\* processCommand without its check that the action is active
processCommandAnyState(caller, commandHash) ==
    /\ (authorizedProcessors[caller] \/ caller = Owner)
    /\ commandResult' = [called |-> TRUE, caller |-> caller, hash |-> commandHash,
                         value |-> processCommand(commandHash)]
    /\ UNCHANGED << actions, supportedLanguages, authorizedProcessors, hashResult,
                    prevHashResult >>
    /\ UNCHANGED nonVoiceVars

processCommandCall(caller, commandHash) ==
    /\ (authorizedProcessors[caller] \/ caller = Owner)
    /\ actions[commandHash].active
    /\ commandResult' = [called |-> TRUE, caller |-> caller, hash |-> commandHash,
                         value |-> processCommand(commandHash)]
    /\ UNCHANGED << actions, supportedLanguages, authorizedProcessors, hashResult,
                    prevHashResult >>
    /\ UNCHANGED nonVoiceVars

VoiceNext ==
    \/ \E c \in Callers, k \in RegisterCalls : registerAction(c, k[1], k[2], k[3], k[4])
    \/ \E c \in Callers, k \in UpdateCalls : updateAction(c, k[1], k[2], k[3], k[4])
    \/ \E c \in Callers, h \in CommandHashes : deactivateAction(c, h)
    \/ \E c \in Callers, l \in LanguageCalls : addLanguage(c, l)
    \/ \E c \in Callers, l \in LanguageCalls : removeLanguage(c, l)
    \/ \E c \in Callers, q \in ProcessorCalls : authorizeProcessor(c, q)
    \/ \E c \in Callers, q \in ProcessorCalls : revokeProcessor(c, q)
    \/ \E c \in Callers, h \in CommandHashes : processCommandCall(c, h)

(***************************************************************************)
(* generateCommandHash. Strings are sequences of characters; keccak256 is  *)
(* taken to be free of collisions, so a digest is identified with the      *)
(* bytes it was computed from.                                             *)
(***************************************************************************)
HashLanguages == {<<"e", "n">>, <<"e", "s">>, <<"e", "n", ":", "x">>, <<"e">>, << >>}
HashCommands == {<<"x", ":", "y">>, <<"y">>, <<"n", ":", "x", ":", "y">>, <<"x">>, << >>}

\* abi.encodePacked of strings: the bytes of each, one after the other
encodePacked(a, b, c) == a \o b \o c

keccak256(bytes) == bytes

generateCommandHash(language, command) ==
    keccak256(encodePacked(language, <<":">>, command))

generateCommandHashCall(language, command) ==
    /\ prevHashResult' = hashResult
    /\ hashResult' = [called |-> TRUE, language |-> language, command |-> command,
                      value |-> generateCommandHash(language, command)]
    /\ UNCHANGED << actions, supportedLanguages, authorizedProcessors, commandResult >>
    /\ UNCHANGED nonVoiceVars

HashNext ==
    \E l \in HashLanguages, c \in HashCommands : generateCommandHashCall(l, c)

(***************************************************************************)
(* The guarded operations with their external token call made visible:     *)
(* the first step runs the operation up to the call (the token's transfer  *)
(* hook can call back from there), the second one moves the tokens and     *)
(* runs the rest.                                                          *)
(***************************************************************************)
NoOp == [op |-> "none"]
ReDepositCalls == {<<"A", 500>>}
ReWithdrawCalls == {<<"A", 500>>}
ReBorrowCalls == {<<"A", 400>>}
ReInitiateCalls == {<<"A", "X", Tok(1000), "r1", "US", "MX">>,
                    <<"A", "X", Tok(400), "r1", "US", "MX">>}

GuardInit ==
    /\ lEntered = FALSE
    /\ rEntered = FALSE
    /\ inCall = NoOp

depositEnter(sender, t, amt) ==
    /\ inCall = NoOp
    /\ ~lEntered
    /\ supportedTokens[t]
    /\ amt > 0
    /\ CanPull(t, sender, amt)
    /\ lEntered' = TRUE
    /\ inCall' = [op |-> "deposit", sender |-> sender, token |-> t, amount |-> amt]
    /\ UNCHANGED << lendingVars, remitVars, viewVars, oracleVars, voiceVars, rEntered >>

depositExit ==
    /\ inCall.op = "deposit"
    /\ tokenBalance' = Moved(tokenBalance, inCall.token, inCall.sender, Pool, inCall.amount)
    /\ userDeposits' = [userDeposits EXCEPT ![inCall.sender][inCall.token] = @ + inCall.amount]
    /\ totalDeposits' = [totalDeposits EXCEPT ![inCall.token] = @ + inCall.amount]
    /\ lEntered' = FALSE
    /\ inCall' = NoOp
    /\ UNCHANGED << now, supportedTokens, interestRates, userLoans, approved >>
    /\ UNCHANGED << remitVars, viewVars, oracleVars, voiceVars, rEntered >>

withdrawEnter(sender, t, amt) ==
    /\ inCall = NoOp
    /\ ~lEntered
    /\ amt > 0
    /\ userDeposits[sender][t] >= amt
    /\ totalDeposits[t] >= amt
    /\ CanPush(t, amt)
    /\ userDeposits' = [userDeposits EXCEPT ![sender][t] = @ - amt]
    /\ totalDeposits' = [totalDeposits EXCEPT ![t] = @ - amt]
    /\ lEntered' = TRUE
    /\ inCall' = [op |-> "withdraw", sender |-> sender, token |-> t, amount |-> amt]
    /\ UNCHANGED << now, supportedTokens, interestRates, userLoans, tokenBalance,
                    approved >>
    /\ UNCHANGED << remitVars, viewVars, oracleVars, voiceVars, rEntered >>

withdrawExit ==
    /\ inCall.op = "withdraw"
    /\ tokenBalance' = Moved(tokenBalance, inCall.token, Pool, inCall.sender, inCall.amount)
    /\ lEntered' = FALSE
    /\ inCall' = NoOp
    /\ UNCHANGED << now, supportedTokens, interestRates, userDeposits, userLoans,
                    totalDeposits, approved >>
    /\ UNCHANGED << remitVars, viewVars, oracleVars, voiceVars, rEntered >>

borrowEnter(sender, t, amt) ==
    /\ inCall = NoOp
    /\ ~lEntered
    /\ supportedTokens[t]
    /\ amt > 0
    /\ totalDeposits[t] >= amt
    /\ ~userLoans[sender][t].active
    /\ CanPush(t, amt)
    /\ userLoans' = [userLoans EXCEPT ![sender][t] =
                        [amount |-> amt, timestamp |-> now,
                         riskTier |-> getRiskTierFromOracle(sender), active |-> TRUE]]
    /\ totalDeposits' = [totalDeposits EXCEPT ![t] = @ - amt]
    /\ lEntered' = TRUE
    /\ inCall' = [op |-> "borrow", sender |-> sender, token |-> t, amount |-> amt]
    /\ UNCHANGED << now, supportedTokens, interestRates, userDeposits, tokenBalance,
                    approved >>
    /\ UNCHANGED << remitVars, viewVars, oracleVars, voiceVars, rEntered >>

borrowExit ==
    /\ inCall.op = "borrow"
    /\ tokenBalance' = Moved(tokenBalance, inCall.token, Pool, inCall.sender, inCall.amount)
    /\ lEntered' = FALSE
    /\ inCall' = NoOp
    /\ UNCHANGED << now, supportedTokens, interestRates, userDeposits, userLoans,
                    totalDeposits, approved >>
    /\ UNCHANGED << remitVars, viewVars, oracleVars, voiceVars, rEntered >>

repayEnter(sender, t) ==
    LET loan == userLoans[sender][t]
        timeElapsed == now - loan.timestamp
        interest == calculateInterest(loan.amount, timeElapsed, loan.riskTier)
        totalRepayment == loan.amount + interest
    IN /\ inCall = NoOp
       /\ ~lEntered
       /\ loan.active
       /\ timeElapsed >= 0
       /\ t \in Tokens
       /\ tokenBalance[t][sender] >= totalRepayment
       /\ CanPull(t, sender, totalRepayment)
       /\ lEntered' = TRUE
       /\ inCall' = [op |-> "repay", sender |-> sender, token |-> t,
                     amount |-> totalRepayment]
       /\ UNCHANGED << lendingVars, remitVars, viewVars, oracleVars, voiceVars, rEntered >>

repayExit ==
    /\ inCall.op = "repay"
    /\ tokenBalance' = Moved(tokenBalance, inCall.token, inCall.sender, Pool, inCall.amount)
    /\ totalDeposits' = [totalDeposits EXCEPT ![inCall.token] = @ + inCall.amount]
    /\ userLoans' = [userLoans EXCEPT ![inCall.sender][inCall.token].active = FALSE]
    /\ lEntered' = FALSE
    /\ inCall' = NoOp
    /\ UNCHANGED << now, supportedTokens, interestRates, userDeposits, approved >>
    /\ UNCHANGED << remitVars, viewVars, oracleVars, voiceVars, rEntered >>

initiateEnter(sender, tokenAddress, amount, recipientId, originCountry, destinationCountry) ==
    LET fee == calculateFee(originCountry, destinationCountry, amount)
        totalAmount == BAdd(amount, fee)
        transferId == transferCounter
    IN /\ inCall = NoOp
       /\ ~rEntered
       /\ rSupportedTokens[tokenAddress]
       /\ BLe(minTransferAmount, amount)
       /\ BLe(amount, maxTransferAmount)
       /\ recipientId # ""
       /\ originCountry # ""
       /\ destinationCountry # ""
       /\ BLe(totalAmount, rBalance[tokenAddress][sender])
       /\ transferCounter <= MaxTransfers
       /\ rApproved[tokenAddress][sender]
       /\ transferCounter' = transferCounter + 1
       /\ transfers' = [transfers EXCEPT ![transferId] =
              [id |-> transferId, sender |-> sender, recipientId |-> recipientId,
               tokenAddress |-> tokenAddress, amount |-> amount, fee |-> fee,
               originCountry |-> originCountry,
               destinationCountry |-> destinationCountry,
               timestamp |-> now, status |-> "PENDING"]]
       /\ userTransfers' = [userTransfers EXCEPT ![sender] = Append(@, transferId)]
       /\ rEntered' = TRUE
       /\ inCall' = [op |-> "initiateTransfer", id |-> transferId]
       /\ UNCHANGED << rSupportedTokens, corridorFees, defaultFee, minTransferAmount,
                       maxTransferAmount, treasury, rBalance, rApproved >>
       /\ UNCHANGED << lendingVars, viewVars, oracleVars, voiceVars, lEntered >>

initiateExit ==
    /\ inCall.op = "initiateTransfer"
    /\ LET transfer == transfers[inCall.id]
           pulled == BMoved(rBalance, transfer.tokenAddress, transfer.sender, Remit,
                            BAdd(transfer.amount, transfer.fee))
       IN rBalance' = BMoved(pulled, transfer.tokenAddress, Remit, treasury, transfer.fee)
    /\ rEntered' = FALSE
    /\ inCall' = NoOp
    /\ UNCHANGED << rSupportedTokens, corridorFees, defaultFee, minTransferAmount,
                    maxTransferAmount, transferCounter, transfers, userTransfers,
                    treasury, rApproved >>
    /\ UNCHANGED << lendingVars, viewVars, oracleVars, voiceVars, lEntered >>

cancelEnter(caller, transferId) ==
    LET transfer == transfers[transferId]
    IN /\ inCall = NoOp
       /\ ~rEntered
       /\ transfer.id = transferId
       /\ transfer.status = "PENDING"
       /\ (caller = transfer.sender \/ caller = Owner)
       /\ transfer.tokenAddress \in Tokens
       /\ BLe(transfer.amount, rBalance[transfer.tokenAddress][Remit])
       /\ transfers' = [transfers EXCEPT ![transferId].status = "CANCELLED"]
       /\ rEntered' = TRUE
       /\ inCall' = [op |-> "cancelTransfer", id |-> transferId]
       /\ UNCHANGED << rSupportedTokens, corridorFees, defaultFee, minTransferAmount,
                       maxTransferAmount, transferCounter, userTransfers, treasury,
                       rBalance, rApproved >>
       /\ UNCHANGED << lendingVars, viewVars, oracleVars, voiceVars, lEntered >>

cancelExit ==
    /\ inCall.op = "cancelTransfer"
    /\ rBalance' = BMoved(rBalance, transfers[inCall.id].tokenAddress, Remit,
                          transfers[inCall.id].sender, transfers[inCall.id].amount)
    /\ rEntered' = FALSE
    /\ inCall' = NoOp
    /\ UNCHANGED << rSupportedTokens, corridorFees, defaultFee, minTransferAmount,
                    maxTransferAmount, transferCounter, transfers, userTransfers,
                    treasury, rApproved >>
    /\ UNCHANGED << lendingVars, viewVars, oracleVars, voiceVars, lEntered >>

\* a transaction of its own: none starts while another is inside its call
Setup ==
    /\ inCall = NoOp
    /\ \/ \E c \in Callers, t \in TokenAddrs : addSupportedToken(c, t)
       \/ \E u \in RemitApprovers, t \in Tokens : approve(u, t)
       \/ \E c \in Callers, t \in TokenAddrs : rAddSupportedToken(c, t)
       \/ \E u \in RemitApprovers, t \in Tokens : rApprove(u, t)

ReentryNext ==
    \/ Setup
    \/ \E c \in ReDepositCalls, t \in TokenAddrs : depositEnter(c[1], t, c[2])
    \/ depositExit
    \/ \E c \in ReWithdrawCalls, t \in TokenAddrs : withdrawEnter(c[1], t, c[2])
    \/ withdrawExit
    \/ \E c \in ReBorrowCalls, t \in TokenAddrs : borrowEnter(c[1], t, c[2])
    \/ borrowExit
    \/ \E u \in RemitApprovers, t \in TokenAddrs : repayEnter(u, t)
    \/ repayExit
    \/ \E k \in ReInitiateCalls : initiateEnter(k[1], k[2], k[3], k[4], k[5], k[6])
    \/ initiateExit
    \/ \E c \in Callers, i \in TransferIdCalls : cancelEnter(c, i)
    \/ cancelExit

Init == LendingInit /\ RemitInit /\ ViewInit /\ OracleInit /\ VoiceInit /\ GuardInit
Next == LendingNext
Spec == Init /\ [][Next]_vars

RemitSpec == Init /\ [][RemitNext]_vars

CalcSpec == Init /\ [][CalcNext]_vars

FeeSpec == Init /\ [][FeeNext]_vars

\* both ledgers side by side: the operations that pull tokens from their caller
\* and what it takes to reach them
PullNext ==
    \/ \E c \in Callers, t \in TokenAddrs : addSupportedToken(c, t)
    \/ \E u \in Users, t \in Tokens : approve(u, t)
    \/ \E c \in DepositCalls, t \in TokenAddrs : deposit(c[1], t, c[2])
    \/ \E c \in BorrowCalls, t \in TokenAddrs : borrow(c[1], t, c[2])
    \/ \E u \in Users, t \in TokenAddrs : repay(u, t)
    \/ \E d \in TimeSteps : Tick(d)
    \/ \E c \in Callers, t \in TokenAddrs : rAddSupportedToken(c, t)
    \/ \E u \in RemitApprovers, t \in Tokens : rApprove(u, t)
    \/ \E k \in InitiateCalls : initiateTransfer(k[1], k[2], k[3], k[4], k[5], k[6])

PullSpec == Init /\ [][PullNext]_vars

OracleSpec == Init /\ [][OracleNext]_vars

ReentrySpec == Init /\ [][ReentryNext]_vars

\* transfers initiated under fee rates up to the cap and beyond
CapNext ==
    \/ \E c \in Callers, t \in TokenAddrs : rAddSupportedToken(c, t)
    \/ \E u \in RemitApprovers, t \in Tokens : rApprove(u, t)
    \/ \E c \in Callers, k \in FeeCorridorCalls : updateCorridorFee(c, k[1], k[2], k[3])
    \/ \E c \in Callers, f \in FeeDefaultFees : updateDefaultFee(c, f)
    \/ \E k \in InitiateCalls : initiateTransfer(k[1], k[2], k[3], k[4], k[5], k[6])

CapSpec == Init /\ [][CapNext]_vars

\* the configuration calls of the two ledgers, by every caller, next to a
\* money movement of each ledger
AdminNext ==
    \/ \E c \in Callers, t \in TokenAddrs : addSupportedToken(c, t)
    \/ \E c \in Callers, t \in TokenAddrs : removeSupportedToken(c, t)
    \/ \E c \in Callers, r \in RateTiers, n \in NewRates : updateInterestRate(c, r, n)
    \/ \E u \in RemitApprovers, t \in Tokens : approve(u, t)
    \/ \E c \in ReDepositCalls, t \in TokenAddrs : deposit(c[1], t, c[2])
    \/ \E c \in Callers, t \in TokenAddrs : rAddSupportedToken(c, t)
    \/ \E c \in Callers, t \in TokenAddrs : rRemoveSupportedToken(c, t)
    \/ \E c \in Callers, k \in CorridorCalls : updateCorridorFee(c, k[1], k[2], k[3])
    \/ \E c \in Callers, f \in DefaultFees : updateDefaultFee(c, f)
    \/ \E c \in Callers, l \in LimitCalls : updateTransferLimits(c, l[1], l[2])
    \/ \E c \in Callers, a \in TreasuryCalls : updateTreasury(c, a)
    \/ \E u \in RemitApprovers, t \in Tokens : rApprove(u, t)
    \/ \E k \in {<<"A", "X", Tok(1000), "r1", "US", "MX">>} : initiateTransfer(k[1], k[2], k[3], k[4], k[5], k[6])

AdminSpec == Init /\ [][AdminNext]_vars

\* the lifecycle calls on every id, 0 and the ids not yet assigned included
IdNext ==
    \/ \E c \in Callers, t \in TokenAddrs : rAddSupportedToken(c, t)
    \/ \E u \in RemitApprovers, t \in Tokens : rApprove(u, t)
    \/ \E k \in ReInitiateCalls : initiateTransfer(k[1], k[2], k[3], k[4], k[5], k[6])
    \/ \E c \in Callers, i \in TransferIds : completeTransfer(c, i)
    \/ \E c \in Callers, i \in TransferIds : cancelTransfer(c, i)
    \/ \E c \in Callers, a \in TreasuryCalls : updateTreasury(c, a)

IdSpec == Init /\ [][IdNext]_vars

\* a loan taken and repaid, with calculateInterest called as a view function
SameBlockNext ==
    \/ \E c \in Callers, t \in TokenAddrs : addSupportedToken(c, t)
    \/ \E c \in Callers, r \in RateTiers, n \in NewRates : updateInterestRate(c, r, n)
    \/ \E u \in RemitApprovers, t \in Tokens : approve(u, t)
    \/ \E c \in ReDepositCalls, t \in TokenAddrs : deposit(c[1], t, c[2])
    \/ \E c \in ReBorrowCalls, t \in TokenAddrs : borrow(c[1], t, c[2])
    \/ \E u \in RemitApprovers, t \in TokenAddrs : repay(u, t)
    \/ \E d \in TimeSteps : Tick(d)
    \/ \E a \in {0, 150, 400}, e \in {0, 1, SecondsPerYear}, r \in RateTiers :
          calculateInterestCall(a, e, r)

SameBlockSpec == Init /\ [][SameBlockNext]_vars

\* both ledgers with their tokens added and removed while money is inside
ExitNext ==
    \/ \E c \in Callers, t \in TokenAddrs : addSupportedToken(c, t)
    \/ \E c \in Callers, t \in TokenAddrs : removeSupportedToken(c, t)
    \/ \E u \in RemitApprovers, t \in Tokens : approve(u, t)
    \/ \E c \in ReDepositCalls, t \in TokenAddrs : deposit(c[1], t, c[2])
    \/ \E c \in ReWithdrawCalls, t \in TokenAddrs : withdraw(c[1], t, c[2])
    \/ \E c \in ReBorrowCalls, t \in TokenAddrs : borrow(c[1], t, c[2])
    \/ \E u \in RemitApprovers, t \in TokenAddrs : repay(u, t)
    \/ \E c \in Callers, t \in TokenAddrs : rAddSupportedToken(c, t)
    \/ \E c \in Callers, t \in TokenAddrs : rRemoveSupportedToken(c, t)
    \/ \E u \in RemitApprovers, t \in Tokens : rApprove(u, t)
    \/ \E k \in ReInitiateCalls : initiateTransfer(k[1], k[2], k[3], k[4], k[5], k[6])
    \/ \E c \in Callers, i \in TransferIdCalls : cancelTransfer(c, i)

ExitSpec == Init /\ [][ExitNext]_vars

VoiceSpec == Init /\ [][VoiceNext]_vars

\* the lending pool next to an oracle whose updater writes tiers
TierWriteCalls == {<<"A", "HIGH">>}
TierBatchCalls == {<< <<"A", "B">>, <<"LOW", "LOW">> >>}

TierNext ==
    \/ LendingNext
    \/ \E k \in TierWriteCalls : updateRiskTier(Owner, k[1], k[2])
    \/ \E b \in TierBatchCalls : batchUpdateRiskTiers(Owner, b[1], b[2])

TierSpec == Init /\ [][TierNext]_vars

HashSpec == Init /\ [][HashNext]_vars

(***************************************************************************)
(* Properties of the lending pool                                          *)
(***************************************************************************)
RECURSIVE SumOver(_, _)
SumOver(f, S) ==
    IF S = {} THEN 0
    ELSE LET x == CHOOSE y \in S : TRUE IN f[x] + SumOver(f, S \ {x})

SumDeposits(t) == SumOver([u \in Users |-> userDeposits[u][t]], Users)

\* what the borrower owes now on the loan for t
Owed(u, t) ==
    userLoans[u][t].amount
      + calculateInterest(userLoans[u][t].amount, now - userLoans[u][t].timestamp,
                          userLoans[u][t].riskTier)

\* C1 as claimed: in every reachable state, for every asset, the deposit
\* balances of all accounts add up to totalDeposits[asset].
C1_ConservationAsClaimed ==
    \A t \in Tokens : SumDeposits(t) = totalDeposits[t]

\* C1 amended: the balances add up to totalDeposits[asset] as long as no loan
\* has been taken on the asset, and every step that leaves the asset's loans
\* alone (deposit, withdraw, configuration) changes the sum of the balances and
\* the total by the same amount; only borrow and repay move the total alone.
C1_ConservationWithoutLoans ==
    /\ [](\A t \in Tokens :
            (\A u \in Users : userLoans[u][t].amount = 0)
               => SumDeposits(t) = totalDeposits[t])
    /\ [][\A t \in Tokens :
            (\A u \in Users : userLoans'[u][t] = userLoans[u][t])
               => SumDeposits(t)' - totalDeposits'[t]
                    = SumDeposits(t) - totalDeposits[t]]_vars

\* both users hold a deposit and nobody has borrowed yet
C1_Witness ==
    /\ userDeposits["A"]["X"] = 1000
    /\ userDeposits["B"]["X"] = 100
    /\ totalDeposits["X"] = 1100
    /\ \A u \in Users : userLoans[u]["X"].amount = 0

\* C2 as claimed: withdraw(asset, amount) with amount > 0 succeeds whenever the
\* caller's deposit balance for the asset is at least amount.
C2_WithdrawAsClaimed ==
    \A c \in WithdrawCalls, t \in Tokens :
        (c[2] > 0 /\ userDeposits[c[1]][t] >= c[2]) => ENABLED withdraw(c[1], t, c[2])

\* C2 amended: withdraw(asset, amount) succeeds exactly when amount > 0, the
\* caller's deposit balance is at least amount and totalDeposits[asset] (what is
\* not lent out) is at least amount; it then debits the balance and the total
\* by amount and pays amount to the caller.
C2_WithdrawNeedsLiquidity ==
    /\ [](\A c \in WithdrawCalls, t \in TokenAddrs :
            ENABLED withdraw(c[1], t, c[2])
              <=> (c[2] > 0 /\ userDeposits[c[1]][t] >= c[2]
                     /\ totalDeposits[t] >= c[2]))
    /\ [][\A c \in WithdrawCalls, t \in Tokens :
            withdraw(c[1], t, c[2])
              => /\ userDeposits'[c[1]][t] = userDeposits[c[1]][t] - c[2]
                 /\ totalDeposits'[t] = totalDeposits[t] - c[2]
                 /\ tokenBalance'[t][c[1]] = tokenBalance[t][c[1]] + c[2]
                 /\ tokenBalance'[t][Pool] = tokenBalance[t][Pool] - c[2]]_vars

\* B has withdrawn 50 of its 100 and can withdraw the rest, while A cannot
\* withdraw its 1000: A's loan of 400 is out and the pool total is 650
C2_Witness ==
    /\ userDeposits["A"]["X"] = 1000
    /\ userDeposits["B"]["X"] = 50
    /\ totalDeposits["X"] = 650
    /\ userLoans["A"]["X"].active
    /\ ~ENABLED withdraw("A", "X", 1000)
    /\ ENABLED withdraw("B", "X", 50)

\* C3: a loan becomes active only by a borrow of that account for that asset
\* and inactive only by a repay of that account for that asset; while it is
\* active every borrow of that account for that asset is rejected.
C3_LoanStateMachine ==
    /\ [](\A u \in Users, t \in TokenAddrs :
            userLoans[u][t].active
               => \A c \in BorrowCalls : ~ENABLED borrow(u, t, c[2]))
    /\ [][\A u \in Users, t \in TokenAddrs :
            /\ (~userLoans[u][t].active /\ userLoans'[u][t].active)
                  => \E c \in BorrowCalls : c[1] = u /\ borrow(u, t, c[2])
            /\ (userLoans[u][t].active /\ ~userLoans'[u][t].active)
                  => repay(u, t)
            /\ (userLoans[u][t].active /\ userLoans'[u][t].active)
                  => userLoans'[u][t] = userLoans[u][t]]_vars

\* A has borrowed and repaid, B's loan is running
C3_Witness ==
    /\ userLoans["A"]["X"].amount = 400
    /\ ~userLoans["A"]["X"].active
    /\ userLoans["B"]["X"].active

\* C4 as claimed (Scenario A): A alone deposited 1000 and borrowed 400 at 1000
\* basis points; the repay one year after the borrow takes 440 from A and
\* leaves the pool total at 1040.
C4_ScenarioAAsClaimed ==
    [][(/\ userDeposits["A"]["X"] = 1000
        /\ userDeposits["B"]["X"] = 0
        /\ totalDeposits["X"] = 600
        /\ userLoans["A"]["X"].active
        /\ userLoans["A"]["X"].amount = 400
        /\ userLoans["A"]["X"].riskTier = "MEDIUM"
        /\ interestRates["MEDIUM"] = 1000
        /\ now - userLoans["A"]["X"].timestamp = SecondsPerYear
        /\ repay("A", "X"))
          => /\ totalDeposits'["X"] = 1040
             /\ tokenBalance'["X"]["A"] = tokenBalance["X"]["A"] - 440]_vars

\* floor(principal * rate * elapsed / (10000 * 31536000)), rounded once
ReferenceInterest(amt, timeElapsed, annualRate) ==
    FromBig(BDivSmall(BDivSmall(BDivSmall(
        BMul(BMul(ToBig(amt), ToBig(annualRate)), ToBig(timeElapsed)),
        10000), 1000), 31536))

\* C5 as claimed: calculateInterest returns
\* floor(principal * rate * elapsed / (10000 * 31536000)).
C5_InterestIsReferenceAsClaimed ==
    calcResult.called
       => calcResult.value
            = ReferenceInterest(calcResult.amount, calcResult.timeElapsed,
                                calcResult.rate)

Terminal(i) == transfers[i].status \in {"COMPLETED", "CANCELLED"}

\* the ids initiateTransfer has assigned
Assigned == 1 .. (transferCounter - 1)

RECURSIVE BSumOver(_, _)
BSumOver(f, S) ==
    IF S = {} THEN << >>
    ELSE LET x == CHOOSE y \in S : TRUE IN BAdd(f[x], BSumOver(f, S \ {x}))

\* the fees of the transfers in S
FeesOf(S) == BSumOver([i \in S |-> transfers[i].fee], S)

TransfersOf(u, t) ==
    {i \in Assigned : transfers[i].sender = u /\ transfers[i].tokenAddress = t}

\* C8: once a transfer is COMPLETED or CANCELLED, completeTransfer and
\* cancelTransfer on its id are rejected for every caller and its record
\* never changes again.
C8_TransferTerminality ==
    /\ [](\A i \in TransferIds :
            Terminal(i)
               => \A c \in Callers :
                     ~ENABLED completeTransfer(c, i) /\ ~ENABLED cancelTransfer(c, i))
    /\ [][\A i \in TransferIds :
            Terminal(i) => transfers'[i] = transfers[i]]_vars

\* one transfer completed and one cancelled
C8_Witness ==
    /\ transfers[1].status = "COMPLETED"
    /\ transfers[2].status = "CANCELLED"

\* what a successful initiateTransfer call k stores under the next id
StoresPending(k) ==
    /\ transfers'[transferCounter].status = "PENDING"
    /\ transfers'[transferCounter].sender = k[1]
    /\ transfers'[transferCounter].amount = k[3]
    /\ transfers'[transferCounter].fee = calculateFee(k[5], k[6], k[3])

\* C9 as claimed: a successful initiateTransfer lowers the sender's balance by
\* amount + fee, raises the treasury's balance by fee and the ledger's own
\* balance by amount, and stores a PENDING record with that amount and fee.
C9_InitiateAsClaimed ==
    [][\A k \in InitiateCalls :
         (transferCounter' # transferCounter
            /\ initiateTransfer(k[1], k[2], k[3], k[4], k[5], k[6]))
           => LET fee == calculateFee(k[5], k[6], k[3])
              IN /\ rBalance'[k[2]][k[1]] = BSub(rBalance[k[2]][k[1]], BAdd(k[3], fee))
                 /\ rBalance'[k[2]][treasury] = BAdd(rBalance[k[2]][treasury], fee)
                 /\ rBalance'[k[2]][Remit] = BAdd(rBalance[k[2]][Remit], k[3])
                 /\ StoresPending(k)]_vars

\* C9 amended: the same, provided the treasury is neither the sender nor the
\* ledger itself.  When the treasury is the sender the fee comes straight back
\* and the sender's balance drops by amount only; when it is the ledger the
\* fee stays in custody, which grows by amount + fee.  With the (US, MX)
\* corridor at 80 basis points the fee on 1000 is 8, in base units and in whole
\* tokens alike.
C9_InitiateEscrowsAndForwardsFee ==
    /\ [](corridorFees["US"]["MX"] = 80
            => /\ calculateFee("US", "MX", ToBig(1000)) = ToBig(8)
               /\ calculateFee("US", "MX", Tok(1000)) = Tok(8))
    /\ [][\A k \in InitiateCalls :
            (transferCounter' # transferCounter
               /\ initiateTransfer(k[1], k[2], k[3], k[4], k[5], k[6]))
              => LET fee == calculateFee(k[5], k[6], k[3])
                     senderPays == IF treasury = k[1] THEN k[3] ELSE BAdd(k[3], fee)
                     custodyGain == IF treasury = Remit THEN BAdd(k[3], fee) ELSE k[3]
                 IN /\ rBalance'[k[2]][k[1]] = BSub(rBalance[k[2]][k[1]], senderPays)
                    /\ rBalance'[k[2]][Remit] = BAdd(rBalance[k[2]][Remit], custodyGain)
                    /\ treasury \notin {k[1], Remit}
                         => rBalance'[k[2]][treasury]
                              = BAdd(rBalance[k[2]][treasury], fee)
                    /\ StoresPending(k)]_vars

\* Scenario B in whole tokens: 1000 sent on (US, MX) at 80 basis points, 1008
\* left the sender, 1000 is in custody and the treasury holds 8
C9_Witness ==
    /\ transfers[1].status = "PENDING"
    /\ transfers[1].amount = Tok(1000)
    /\ transfers[1].fee = Tok(8)
    /\ rBalance["X"]["A"] = BSub(RInitialHolding("X", "A"), Tok(1008))
    /\ rBalance["X"][Remit] = Tok(1000)
    /\ rBalance["X"][Owner] = Tok(8)

\* all the transfers u has made in t are cancelled, and there is one
AllCancelled(u, t) ==
    /\ TransfersOf(u, t) # {}
    /\ \A i \in TransfersOf(u, t) : transfers[i].status = "CANCELLED"

\* C10 as claimed: a sender whose transfers are all cancelled has lost exactly
\* their fees.
C10_NetLossIsFeeAsClaimed ==
    \A u \in Users, t \in Tokens :
        AllCancelled(u, t)
           => rBalance[t][u] = BSub(RInitialHolding(t, u), FeesOf(TransfersOf(u, t)))

\* C10 amended: cancelTransfer on a PENDING transfer moves exactly the recorded
\* principal from the ledger to the transfer's sender, moves nothing else
\* (the fee stays with whoever received it) and sets the status to CANCELLED;
\* a second cancelTransfer on the id is rejected.  The sender's net loss over
\* initiate + cancel is exactly the fee when the fee went to a treasury other
\* than the sender (here: the deployer holds every fee charged).
C10_CancelRefundsPrincipal ==
    /\ [](\A i \in TransferIds :
            transfers[i].status = "CANCELLED"
               => \A c \in Callers : ~ENABLED cancelTransfer(c, i))
    /\ [](\A u \in Users, t \in Tokens :
            (AllCancelled(u, t) /\ rBalance[t][Owner] = FeesOf(Assigned))
               => rBalance[t][u]
                    = BSub(RInitialHolding(t, u), FeesOf(TransfersOf(u, t))))
    /\ [][\A c \in Callers, i \in TransferIdCalls :
            (transfers'[i] # transfers[i] /\ cancelTransfer(c, i))
              => LET tr == transfers[i]
                 IN /\ transfers'[i] = [tr EXCEPT !.status = "CANCELLED"]
                    /\ rBalance'[tr.tokenAddress][tr.sender]
                         = BAdd(rBalance[tr.tokenAddress][tr.sender], tr.amount)
                    /\ rBalance'[tr.tokenAddress][Remit]
                         = BSub(rBalance[tr.tokenAddress][Remit], tr.amount)
                    /\ \A h \in Holders \ {tr.sender, Remit} :
                         rBalance'[tr.tokenAddress][h] = rBalance[tr.tokenAddress][h]]_vars

\* A sent 1000 at the default 50 basis points and cancelled: A is 5 short, the
\* deployer (treasury) holds the 5 and custody is empty
C10_Witness ==
    /\ transfers[1].status = "CANCELLED"
    /\ transfers[1].amount = Tok(1000)
    /\ transfers[1].fee = Tok(5)
    /\ rBalance["X"]["A"] = BSub(RInitialHolding("X", "A"), Tok(5))
    /\ rBalance["X"][Owner] = Tok(5)
    /\ rBalance["X"][Remit] = << >>
    /\ \A c \in Callers : ~ENABLED cancelTransfer(c, 1)

\* C11: cancelTransfer succeeds only for the transfer's original sender and
\* for the administrator; whoever of the two calls, the principal goes to the
\* original sender, and an administrator who is not the sender receives
\* nothing.
C11_CancelOnlySenderOrAdmin ==
    /\ [](\A c \in Callers, i \in TransferIds :
            ENABLED cancelTransfer(c, i) => (c = transfers[i].sender \/ c = Owner))
    /\ [][\A c \in Callers, i \in TransferIdCalls :
            (transfers'[i] # transfers[i] /\ cancelTransfer(c, i))
              => LET tr == transfers[i]
                 IN /\ rBalance'[tr.tokenAddress][tr.sender]
                         = BAdd(rBalance[tr.tokenAddress][tr.sender], tr.amount)
                    /\ tr.sender # Owner
                         => rBalance'[tr.tokenAddress][Owner]
                              = rBalance[tr.tokenAddress][Owner]]_vars

\* transfer 1 of A is cancelled and A has its principal back; transfer 2 of A
\* is pending: A and the administrator may cancel it, B may not
C11_Witness ==
    /\ transfers[1].status = "CANCELLED"
    /\ transfers[2].status = "PENDING"
    /\ transfers[2].sender = "A"
    /\ rBalance["X"][Remit] = transfers[2].amount
    /\ ENABLED cancelTransfer("A", 2)
    /\ ENABLED cancelTransfer(Owner, 2)
    /\ ~ENABLED cancelTransfer("B", 2)

\* C12: completeTransfer succeeds only for the administrator and only on a
\* PENDING record; it sets that record's status to COMPLETED and changes
\* nothing else: no token balance, not the counter, no other record.
C12_CompleteOnlyFlipsStatus ==
    /\ [](\A c \in Callers, i \in TransferIds :
            ENABLED completeTransfer(c, i)
              => (c = Owner /\ transfers[i].status = "PENDING"))
    /\ [][\A c \in Callers, i \in TransferIdCalls :
            completeTransfer(c, i)
              => /\ transfers' = [transfers EXCEPT ![i].status = "COMPLETED"]
                 /\ rBalance' = rBalance
                 /\ transferCounter' = transferCounter
                 /\ userTransfers' = userTransfers]_vars

\* transfer 1 is completed with its principal still in custody next to that
\* of the pending transfer 2, which only the administrator can complete
C12_Witness ==
    /\ transfers[1].status = "COMPLETED"
    /\ transfers[2].status = "PENDING"
    /\ treasury # Remit
    /\ rBalance["X"][Remit] = BAdd(transfers[1].amount, transfers[2].amount)
    /\ ENABLED completeTransfer(Owner, 2)
    /\ ~ENABLED completeTransfer("A", 2)
    /\ ~ENABLED completeTransfer(Owner, 1)

\* one of the conditions under which initiateTransfer must fail holds for call k
InitiateRejected(k) ==
    \/ ~rSupportedTokens[k[2]]
    \/ BLt(k[3], minTransferAmount)
    \/ BLt(maxTransferAmount, k[3])
    \/ k[4] = ""
    \/ k[5] = ""
    \/ k[6] = ""
    \/ BLt(rBalance[k[2]][k[1]], BAdd(k[3], calculateFee(k[5], k[6], k[3])))

\* C13: initiateTransfer fails (and so changes nothing) whenever the asset is
\* not eligible, the amount is below the minimum or above the maximum, the
\* recipient id, origin or destination is empty, or the sender holds less than
\* amount + fee.
C13_InitiateRejects ==
    \A k \in InitiateCalls :
        InitiateRejected(k) => ~ENABLED initiateTransfer(k[1], k[2], k[3], k[4], k[5], k[6])

\* Scenario C: with the asset eligible and A's allowance given, 1000 tokens can
\* be sent, while 1999 base units (below the minimum of 10 tokens), 20000
\* tokens (above the maximum) and an empty recipient id are rejected
C13_Witness ==
    /\ rSupportedTokens["X"]
    /\ rApproved["X"]["A"]
    /\ minTransferAmount = Tok(10)
    /\ ENABLED initiateTransfer("A", "X", Tok(1000), "r1", "US", "MX")
    /\ ~ENABLED initiateTransfer("A", "X", ToBig(1999), "r1", "US", "MX")
    /\ ~ENABLED initiateTransfer("A", "X", Tok(20000), "r1", "US", "MX")
    /\ ~ENABLED initiateTransfer("A", "X", Tok(1000), "", "US", "MX")

RECURSIVE SumLen(_, _)
SumLen(f, S) ==
    IF S = {} THEN 0
    ELSE LET x == CHOOSE y \in S : TRUE IN Len(f[x]) + SumLen(f, S \ {x})

FeeAtRate(amount, rate) == BDivSmall(BMul(amount, ToBig(rate)), 10000)

\* C14 as claimed: once updateCorridorFee has set a corridor to a rate of 0 ..
\* 500 basis points, calculateFee for the corridor is floor(amount * rate /
\* 10000) with that rate; a corridor with no rate stored is quoted at the
\* default rate; the fee on amount 0 is 0.
C14_QuoteFeeAsClaimed ==
    /\ [](\A o \in CountryCodes, d \in CountryCodes :
            /\ calculateFee(o, d, << >>) = << >>
            /\ (\A k \in FeeCorridorCalls : << k[1], k[2] >> # << o, d >>)
                 => \A a \in FeeAmounts :
                       calculateFee(o, d, a) = FeeAtRate(a, defaultFee))
    /\ [][\A c \in Callers, k \in FeeCorridorCalls :
            updateCorridorFee(c, k[1], k[2], k[3])
              => \A a \in FeeAmounts :
                    calculateFee(k[1], k[2], a)' = FeeAtRate(a, k[3])]_vars

\* C15 as claimed: calculateFee depends on its three inputs only: no step of
\* the ledger changes what it returns for given inputs.
C15_FeeDeterminismAsClaimed ==
    [][\A o \in CountryCodes, d \in CountryCodes, a \in FeeAmounts :
         calculateFee(o, d, a)' = calculateFee(o, d, a)]_vars

\* C15 amended: calculateFee depends on its three inputs and on the fee rates
\* in force (the corridor's rate and the default rate): a step that changes
\* the ledger but leaves both rates alone leaves every quote as it was, and the
\* call itself returns the quote and changes no state of either ledger; so two
\* calls with identical inputs and no rate change in between return identical
\* results.
C15_FeeDependsOnRatesOnly ==
    /\ [][(corridorFees' = corridorFees /\ defaultFee' = defaultFee
             /\ remitVars' # remitVars)
            => \A o \in CountryCodes, d \in CountryCodes, a \in FeeAmounts :
                  calculateFee(o, d, a)' = calculateFee(o, d, a)]_vars
    /\ [][\A o \in CountryCodes, d \in CountryCodes, a \in FeeAmounts :
            (/\ feeResult'.called
             /\ feeResult'.origin = o
             /\ feeResult'.destination = d
             /\ feeResult'.amount = a
             /\ calculateFeeCall(o, d, a))
              => /\ feeResult'.value = calculateFee(o, d, a)
                 /\ UNCHANGED << lendingVars, remitVars >>]_vars

\* 1000 tokens quoted at 8 on (US, MX) at 80 basis points after the treasury
\* and the limits were changed
C15_Witness ==
    /\ feeResult.called
    /\ feeResult.origin = "US"
    /\ feeResult.destination = "MX"
    /\ feeResult.amount = Tok(1000)
    /\ feeResult.value = Tok(8)
    /\ corridorFees["US"]["MX"] = 80
    /\ treasury = "A"
    /\ minTransferAmount = ToBig(1)

(***************************************************************************)
(* Failed calls                                                            *)
(***************************************************************************)
\* C17: a call whose token movement cannot go through (missing allowance or
\* balance), wherever in the operation the code attempts it, fails as a
\* whole: deposit, repay and initiateTransfer take no step then, so no
\* balance, total, loan, transfer record, counter or transfer list changes.
C17_FailedCallsChangeNothing ==
    /\ \A c \in DepositCalls, t \in Tokens :
          ~CanPull(t, c[1], c[2]) => ~ENABLED deposit(c[1], t, c[2])
    /\ \A u \in Users, t \in Tokens :
          (userLoans[u][t].active /\ ~CanPull(t, u, Owed(u, t)))
             => ~ENABLED repay(u, t)
    /\ \A k \in InitiateCalls :
          (/\ k[2] \in Tokens
           /\ \/ ~rApproved[k[2]][k[1]]
              \/ BLt(rBalance[k[2]][k[1]], BAdd(k[3], calculateFee(k[5], k[6], k[3]))))
             => ~ENABLED initiateTransfer(k[1], k[2], k[3], k[4], k[5], k[6])

\* B has given no allowance to either ledger: with the asset eligible in both
\* it can neither deposit nor repay the loan it holds the tokens for, nor
\* initiate a transfer it holds the tokens for; its loan is still active and
\* the only transfer recorded is A's
C17_Witness ==
    /\ supportedTokens["X"]
    /\ ~approved["X"]["B"]
    /\ userLoans["B"]["X"].active
    /\ now > userLoans["B"]["X"].timestamp
    /\ tokenBalance["X"]["B"] >= Owed("B", "X")
    /\ ~ENABLED repay("B", "X")
    /\ ~ENABLED deposit("B", "X", 100)
    /\ userDeposits["B"]["X"] = 0
    /\ rSupportedTokens["X"]
    /\ ~rApproved["X"]["B"]
    /\ ~ENABLED initiateTransfer("B", "X", Tok(1000), "r1", "US", "MX")
    /\ transferCounter = 2
    /\ userTransfers["B"] = << >>

(***************************************************************************)
(* Reentrancy                                                              *)
(***************************************************************************)
LendingOps == {"deposit", "withdraw", "borrow", "repay"}
RemitOps == {"initiateTransfer", "cancelTransfer"}
NestedAmounts == {c[2] : c \in DepositCalls \cup WithdrawCalls \cup BorrowCalls
                                \cup ReDepositCalls \cup ReWithdrawCalls \cup ReBorrowCalls}

\* C18: while a deposit, withdraw, borrow or repay is inside its token
\* transfer, no call of deposit, withdraw, borrow or repay on the pool can
\* succeed, whoever makes it and whatever its arguments; while an
\* initiateTransfer or cancelTransfer is inside its token transfer, no call of
\* initiateTransfer or cancelTransfer on the remittance ledger can succeed. In
\* particular the transfer being initiated cannot be cancelled before its
\* escrow has arrived, and nothing can be withdrawn or borrowed between the
\* token movement of a deposit or repayment and its bookkeeping.
C18_NoNestedMoneyMovement ==
    /\ inCall.op \in LendingOps =>
          \A u \in Users, t \in Tokens :
              /\ \A a \in NestedAmounts :
                    /\ ~ENABLED deposit(u, t, a)
                    /\ ~ENABLED withdraw(u, t, a)
                    /\ ~ENABLED borrow(u, t, a)
              /\ ~ENABLED repay(u, t)
    /\ inCall.op \in RemitOps =>
          /\ \A k \in InitiateCalls \cup ReInitiateCalls :
                ~ENABLED initiateTransfer(k[1], k[2], k[3], k[4], k[5], k[6])
          /\ \A c \in Callers, i \in TransferIds : ~ENABLED cancelTransfer(c, i)

\* transfer 2 is being initiated: its record is written and PENDING, its
\* escrow has not arrived, custody holds the principal of transfer 1 only, so
\* that every other condition of cancelTransfer("A", 2) is met
C18_Witness ==
    /\ inCall = [op |-> "initiateTransfer", id |-> 2]
    /\ transfers[2].id = 2
    /\ transfers[2].status = "PENDING"
    /\ transfers[2].sender = "A"
    /\ transfers[1].status = "PENDING"
    /\ rBalance["X"][Remit] = transfers[1].amount
    /\ BLe(transfers[2].amount, rBalance["X"][Remit])
    /\ ~ENABLED cancelTransfer("A", 2)

(***************************************************************************)
(* Properties of the risk oracle                                           *)
(***************************************************************************)
\* C19 as claimed: right after the updater has written tier T for an account,
\* getRiskTier for the account returns T, for T = LOW, MEDIUM and HIGH; for an
\* account never written it returns MEDIUM.
C19_RoundTripAsClaimed ==
    /\ [](\A u \in Users :
            userRiskTiers = [v \in OracleUsers |-> "LOW"]
               => getRiskTier(u) = TierIndex("MEDIUM"))
    /\ [][\A c \in OracleCallers, u \in Users, r \in RiskTier :
            updateRiskTier(c, u, r) => getRiskTier(u)' = TierIndex(r)]_vars

\* C20 as claimed: getRiskTier fails for every caller that is not in the
\* authorized set.
C20_OnlyAuthorizedReadAsClaimed ==
    \A c \in OracleCallers, u \in OracleUsers :
        ~authorizedCallers[c] => ~ENABLED getRiskTierCall(c, u)

\* C20 amended: getRiskTier succeeds exactly for the members of the authorized
\* set and for the oracle's owner; every other caller, never authorized or
\* revoked, fails.
C20_OnlyAuthorizedOrOwnerRead ==
    \A c \in OracleCallers, u \in OracleUsers :
        ENABLED getRiskTierCall(c, u) <=> (authorizedCallers[c] \/ c = Owner)

\* A read B's tier while authorized and has been revoked since: it cannot read
\* any more, the pool (authorized) and the owner can
C20_Witness ==
    /\ tierResult.called
    /\ tierResult.caller = "A"
    /\ tierResult.user = "B"
    /\ ~authorizedCallers["A"]
    /\ authorizedCallers[Pool]
    /\ ~ENABLED getRiskTierCall("A", "B")
    /\ ~ENABLED getRiskTierCall("B", "B")
    /\ ENABLED getRiskTierCall(Pool, "B")
    /\ ENABLED getRiskTierCall(Owner, "B")

\* C21: the only account that can write tiers is the current aiOracleUpdater,
\* which is the constructor argument until setAIOracleUpdater, called by the
\* owner, installs another one: updateRiskTier and batchUpdateRiskTiers are
\* refused to every other caller (the owner and a replaced updater included),
\* tiers change in no step other than a write by the updater, and a successful
\* updateRiskTier sets the named account's tier and no other.
C21_SingleUpdater ==
    /\ [](\A c \in OracleCallers :
            /\ (\E u \in OracleUsers, r \in RiskTier : ENABLED updateRiskTier(c, u, r))
                   <=> c = aiOracleUpdater
            /\ (\E b \in BatchCalls : ENABLED batchUpdateRiskTiers(c, b[1], b[2]))
                   <=> c = aiOracleUpdater)
    /\ [][userRiskTiers' # userRiskTiers =>
            \/ \E u \in OracleUsers, r \in RiskTier :
                  updateRiskTier(aiOracleUpdater, u, r)
            \/ \E b \in BatchCalls : batchUpdateRiskTiers(aiOracleUpdater, b[1], b[2])]_vars
    /\ [][aiOracleUpdater' # aiOracleUpdater =>
            \E n \in UpdaterCalls : setAIOracleUpdater(Owner, n) /\ aiOracleUpdater' = n]_vars
    /\ [][\A c \in OracleCallers, u \in OracleUsers, r \in RiskTier :
            updateRiskTier(c, u, r) =>
                /\ userRiskTiers'[u] = r
                /\ \A v \in OracleUsers \ {u} : userRiskTiers'[v] = userRiskTiers[v]]_vars

\* A has replaced the owner as updater and has written B's tier; the owner, the
\* former updater, can no longer write
C21_Witness ==
    /\ aiOracleUpdater = "A"
    /\ userRiskTiers["B"] = "HIGH"
    /\ userRiskTiers["A"] = "LOW"
    /\ ENABLED updateRiskTier("A", "B", "MEDIUM")
    /\ ~ENABLED updateRiskTier(Owner, "B", "MEDIUM")
    /\ ~ENABLED batchUpdateRiskTiers(Owner, <<"A", "B">>, <<"HIGH", "LOW">>)

\* the tier the batch leaves for account v: that of the last pair naming v
LastWrite(tiers, users, riskTiers, v) ==
    LET hits == {i \in 1 .. Len(users) : users[i] = v}
    IN IF hits = {} THEN tiers[v]
       ELSE riskTiers[CHOOSE i \in hits : \A j \in hits : j <= i]

\* C22: batchUpdateRiskTiers succeeds exactly when the caller is the updater,
\* the two arrays have the same length and no account of the batch is null;
\* otherwise the call fails as a whole and no tier changes. When it succeeds,
\* every account named in the batch ends with the tier of the last pair naming
\* it, and every other account keeps its tier: the result of updateRiskTier
\* applied to the pairs in index order.
C22_BatchAllOrNothing ==
    /\ [](\A c \in OracleCallers, b \in BatchCalls :
            ENABLED batchUpdateRiskTiers(c, b[1], b[2]) <=>
                /\ c = aiOracleUpdater
                /\ Len(b[1]) = Len(b[2])
                /\ \A i \in 1 .. Len(b[1]) : b[1][i] # ZeroAddress)
    /\ [][\A c \in OracleCallers, b \in BatchCalls :
            batchUpdateRiskTiers(c, b[1], b[2]) =>
                \A v \in OracleUsers :
                    userRiskTiers'[v] = LastWrite(userRiskTiers, b[1], b[2], v)]_vars

\* the batch (A, HIGH), (A, MEDIUM) has been applied after B was set to HIGH:
\* A holds the later tier, B is untouched; the batch with a null account at
\* index 2 and the batch of unequal lengths are refused to the updater
C22_Witness ==
    /\ userRiskTiers["A"] = "MEDIUM"
    /\ userRiskTiers["B"] = "HIGH"
    /\ ENABLED batchUpdateRiskTiers(aiOracleUpdater, <<"A", "A">>, <<"HIGH", "MEDIUM">>)
    /\ ~ENABLED batchUpdateRiskTiers(aiOracleUpdater, <<"B", ZeroAddress>>, <<"HIGH", "HIGH">>)
    /\ ~ENABLED batchUpdateRiskTiers(aiOracleUpdater, <<"A", "B">>, <<"HIGH">>)

(***************************************************************************)
(* Fee cap                                                                 *)
(***************************************************************************)
\* C29: the default fee rate and every corridor fee rate are at most 500
\* basis points in every reachable state; updateCorridorFee and
\* updateDefaultFee with a rate above 500 fail for every caller; and every
\* stored transfer satisfies fee * 10000 <= amount * 500.
C29_FeesCapped ==
    /\ defaultFee <= 500
    /\ \A o \in CountryCodes, d \in CountryCodes : corridorFees[o][d] <= 500
    /\ \A c \in Callers :
          /\ \A f \in FeeDefaultFees : f > 500 => ~ENABLED updateDefaultFee(c, f)
          /\ \A k \in FeeCorridorCalls :
                k[3] > 500 => ~ENABLED updateCorridorFee(c, k[1], k[2], k[3])
    /\ \A i \in Assigned :
          BLe(BMul(transfers[i].fee, ToBig(10000)), BMul(transfers[i].amount, ToBig(500)))

\* both rates stand at the cap, a transfer was charged exactly 5%, and 501 is
\* refused to the owner
C29_Witness ==
    /\ defaultFee = 500
    /\ corridorFees["US"]["MX"] = 500
    /\ 1 \in Assigned
    /\ BMul(transfers[1].fee, ToBig(10000)) = BMul(transfers[1].amount, ToBig(500))
    /\ ~ENABLED updateDefaultFee(Owner, 501)
    /\ ~ENABLED updateCorridorFee(Owner, "US", "MX", 501)

(***************************************************************************)
(* Configuration                                                           *)
(***************************************************************************)
\* C30: every configuration call of the two ledgers (token eligibility,
\* interest rates, corridor and default fee, transfer limits, treasury) fails
\* for every caller other than the owner; updateInterestRate above 5000 fails
\* for the owner too; and the configuration of a ledger changes in no step
\* other than the matching call by the owner.
C30_ConfigOnlyByOwner ==
    /\ [](\A c \in Callers \ {Owner} :
            /\ \A t \in TokenAddrs :
                  /\ ~ENABLED addSupportedToken(c, t)
                  /\ ~ENABLED removeSupportedToken(c, t)
                  /\ ~ENABLED rAddSupportedToken(c, t)
                  /\ ~ENABLED rRemoveSupportedToken(c, t)
            /\ \A r \in RateTiers, n \in NewRates : ~ENABLED updateInterestRate(c, r, n)
            /\ \A k \in CorridorCalls : ~ENABLED updateCorridorFee(c, k[1], k[2], k[3])
            /\ \A f \in DefaultFees : ~ENABLED updateDefaultFee(c, f)
            /\ \A l \in LimitCalls : ~ENABLED updateTransferLimits(c, l[1], l[2])
            /\ \A a \in TreasuryCalls : ~ENABLED updateTreasury(c, a))
    /\ [](\A r \in RateTiers, n \in NewRates :
            n > 5000 => ~ENABLED updateInterestRate(Owner, r, n))
    /\ [][supportedTokens' # supportedTokens =>
            \E t \in Tokens : addSupportedToken(Owner, t) \/ removeSupportedToken(Owner, t)]_vars
    /\ [][interestRates' # interestRates =>
            \E r \in RateTiers, n \in NewRates : updateInterestRate(Owner, r, n)]_vars
    /\ [][rSupportedTokens' # rSupportedTokens =>
            \E t \in Tokens : rAddSupportedToken(Owner, t) \/ rRemoveSupportedToken(Owner, t)]_vars
    /\ [][corridorFees' # corridorFees =>
            \E k \in CorridorCalls : updateCorridorFee(Owner, k[1], k[2], k[3])]_vars
    /\ [][defaultFee' # defaultFee =>
            \E f \in DefaultFees : updateDefaultFee(Owner, f)]_vars
    /\ [][(minTransferAmount' # minTransferAmount \/ maxTransferAmount' # maxTransferAmount) =>
            \E l \in LimitCalls : updateTransferLimits(Owner, l[1], l[2])]_vars
    /\ [][treasury' # treasury =>
            \E a \in TreasuryCalls : updateTreasury(Owner, a)]_vars

\* the owner has changed every setting, A has deposited and has a transfer
\* pending; A, now the treasury, can change no setting
C30_Witness ==
    /\ supportedTokens["X"]
    /\ interestRates["MEDIUM"] = 2000
    /\ rSupportedTokens["X"]
    /\ corridorFees["US"]["MX"] = 80
    /\ defaultFee = 0
    /\ minTransferAmount = ToBig(1)
    /\ treasury = "A"
    /\ userDeposits["A"]["X"] = 500
    /\ transfers[1].status = "PENDING"
    /\ ~ENABLED updateTreasury("A", "A")
    /\ ~ENABLED updateDefaultFee("A", 0)
    /\ ~ENABLED removeSupportedToken("A", "X")
    /\ ~ENABLED updateInterestRate(Owner, "MEDIUM", 5001)
    /\ ENABLED updateInterestRate(Owner, "MEDIUM", 2000)

(***************************************************************************)
(* Loans and the risk oracle                                               *)
(***************************************************************************)
\* C26: as long as a loan stays active its stored risk tier (and the rest of
\* its record) does not change, whatever step is taken: a tier write or batch
\* write in the oracle, updateInterestRate, deposit, withdraw, or a step of
\* another account; and repay takes from the borrower the principal plus the
\* interest computed with the tier stored in the loan.
C26_TierFixedAtOrigination ==
    /\ [][\A u \in Users, t \in Tokens :
            userLoans[u][t].active /\ userLoans'[u][t].active =>
                userLoans'[u][t] = userLoans[u][t]]_vars
    /\ [][\A u \in Users, t \in Tokens :
            (userLoans'[u][t] # userLoans[u][t] /\ repay(u, t)) =>
                /\ userLoans'[u][t].riskTier = userLoans[u][t].riskTier
                /\ totalDeposits'[t] = totalDeposits[t] + userLoans[u][t].amount
                      + calculateInterest(userLoans[u][t].amount,
                                          now - userLoans[u][t].timestamp,
                                          userLoans[u][t].riskTier)]_vars

\* A borrowed 400, the oracle then stored HIGH for A, and A repaid a year
\* later: the pool received 39 of interest, the MEDIUM rate of the loan (the
\* HIGH rate gives 59)
C26_Witness ==
    /\ userRiskTiers["A"] = "HIGH"
    /\ userLoans["A"]["X"] = [amount |-> 400, timestamp |-> StartTime,
                               riskTier |-> "MEDIUM", active |-> FALSE]
    /\ now = StartTime + SecondsPerYear
    /\ interestRates["MEDIUM"] = 1000
    /\ userDeposits["A"]["X"] = 1000
    /\ userDeposits["B"]["X"] = 0
    /\ totalDeposits["X"] = 1039

Repaid(u, t) == ~userLoans[u][t].active /\ userLoans[u][t].amount > 0

\* C28 as claimed: the record of a repaid loan (principal, origination
\* timestamp, tier, active = false) stays as it is in every later step.
C28_HistoryAsClaimed ==
    [][\A u \in Users, t \in Tokens :
          Repaid(u, t) => userLoans'[u][t] = userLoans[u][t]]_vars

\* C28 amended: repay clears the active flag and leaves principal, timestamp
\* and tier of the record in place; no step erases a record; the record of a
\* repaid loan stays as it is until the same account borrows the same asset
\* again, which is the only step that changes it and which replaces it by the
\* record of the new loan.
C28_HistoryUntilNextBorrow ==
    /\ [][\A u \in Users, t \in Tokens :
            (userLoans'[u][t] # userLoans[u][t] /\ repay(u, t)) =>
                userLoans'[u][t] = [userLoans[u][t] EXCEPT !.active = FALSE]]_vars
    /\ [][\A u \in Users, t \in Tokens :
            userLoans[u][t].amount > 0 => userLoans'[u][t].amount > 0]_vars
    /\ [][\A u \in Users, t \in Tokens :
            (Repaid(u, t) /\ userLoans'[u][t] # userLoans[u][t]) =>
                /\ \E c \in BorrowCalls : c[1] = u /\ borrow(u, t, c[2])
                /\ userLoans'[u][t].active
                /\ userLoans'[u][t].timestamp = now]_vars

\* A's loan of 400 was repaid with 39 of interest and its record is kept; A
\* can borrow again, which will overwrite it
C28_Witness ==
    /\ userLoans["A"]["X"] = [amount |-> 400, timestamp |-> StartTime,
                               riskTier |-> "MEDIUM", active |-> FALSE]
    /\ now = StartTime + SecondsPerYear
    /\ totalDeposits["X"] = 1039
    /\ ENABLED borrow("A", "X", 400)

(***************************************************************************)
(* Properties of the voice command registry                                *)
(***************************************************************************)
\* C23: registerAction on a hash that is active fails for every caller and
\* every argument, and the record of an active hash (target contract,
\* function selector, description, active flag) changes in no step other
\* than an updateAction or a deactivateAction of that hash by the owner.
C23_RegisterActiveFails ==
    /\ [](\A c \in Callers, k \in RegisterCalls :
            actions[k[1]].active => ~ENABLED registerAction(c, k[1], k[2], k[3], k[4]))
    /\ [][\A h \in CommandHashes :
            actions[h].active /\ actions'[h] # actions[h] =>
                \/ \E k \in UpdateCalls :
                      k[1] = h /\ updateAction(Owner, k[1], k[2], k[3], k[4])
                \/ deactivateAction(Owner, h)]_vars

\* h1 is registered for the pool's deposit; registering it for another target
\* is refused, for the hash h2, not active, the same call is accepted
C23_Witness ==
    /\ actions["h1"] = [targetContract |-> Pool, functionSelector |-> "deposit",
                        description |-> "d1", active |-> TRUE]
    /\ ~actions["h2"].active
    /\ ~ENABLED registerAction(Owner, "h1", Remit, "initiateTransfer", "d2")
    /\ ENABLED registerAction(Owner, "h2", Pool, "deposit", "d1")

\* C24: processCommand called by an authorized processor succeeds exactly when
\* the hash is active and fails for every caller when it is not (never
\* registered, or deactivated); it returns the target contract and function
\* selector of the record, which are those of the last registerAction or
\* updateAction of the hash, since no other step changes them. updateAction
\* and deactivateAction fail on a hash that is not active; deactivateAction
\* clears the active flag only, so getAction keeps returning the stored
\* target, selector and description, with active = false.
C24_ResolveReturnsLastWritten ==
    /\ [](\A c \in Callers, h \in CommandHashes :
            /\ authorizedProcessors[c] =>
                   (ENABLED processCommandCall(c, h) <=> actions[h].active)
            /\ ~actions[h].active =>
                   /\ ~ENABLED processCommandCall(c, h)
                   /\ ~ENABLED deactivateAction(c, h)
                   /\ \A k \in UpdateCalls :
                         k[1] = h => ~ENABLED updateAction(c, k[1], k[2], k[3], k[4]))
    /\ [][\A c \in Callers, h \in CommandHashes :
            processCommandCall(c, h) =>
                commandResult'.value = << actions[h].targetContract,
                                          actions[h].functionSelector >>]_vars
    /\ [][\A c \in Callers, k \in RegisterCalls :
            registerAction(c, k[1], k[2], k[3], k[4]) =>
                processCommand(k[1])' = << k[2], k[3] >>]_vars
    /\ [][\A c \in Callers, k \in UpdateCalls :
            updateAction(c, k[1], k[2], k[3], k[4]) =>
                processCommand(k[1])' = << k[2], k[3] >>]_vars
    /\ [][\A h \in CommandHashes :
            processCommand(h)' # processCommand(h) =>
                \/ \E k \in RegisterCalls :
                      k[1] = h /\ registerAction(Owner, k[1], k[2], k[3], k[4])
                \/ \E k \in UpdateCalls :
                      k[1] = h /\ updateAction(Owner, k[1], k[2], k[3], k[4])]_vars
    /\ [][\A c \in Callers, h \in CommandHashes :
            deactivateAction(c, h) =>
                getAction(h)' = << actions[h].targetContract, actions[h].functionSelector,
                                   actions[h].description, FALSE >>]_vars

\* h1 was registered for deposit, updated to withdraw, resolved by the
\* authorized processor A and then deactivated: A can resolve it no more, and
\* getAction still returns what updateAction wrote
C24_Witness ==
    /\ authorizedProcessors["A"]
    /\ commandResult.called
    /\ commandResult.caller = "A"
    /\ commandResult.hash = "h1"
    /\ commandResult.value = << Pool, "withdraw" >>
    /\ getAction("h1") = << Pool, "withdraw", "d3", FALSE >>
    /\ ~ENABLED processCommandCall("A", "h1")
    /\ ~ENABLED deactivateAction(Owner, "h1")
    /\ ~ENABLED updateAction(Owner, "h1", Pool, "withdraw", "d3")

\* C25 as claimed: two calls of generateCommandHash with the same (language,
\* command) pair return the same hash, and two calls with distinct pairs
\* never return the same hash.
C25_HashUniqueAsClaimed ==
    (hashResult.called /\ prevHashResult.called) =>
        (hashResult.value = prevHashResult.value
            <=> (/\ hashResult.language = prevHashResult.language
                 /\ hashResult.command = prevHashResult.command))

(***************************************************************************)
(* Solvency and accounting of the lending pool                             *)
(***************************************************************************)
\* C31: in every reachable state the pool's own token balance of each asset
\* equals totalDeposits[asset] (tokens reach and leave the pool through
\* deposit, withdraw, borrow and repay only).
C31_PoolHoldsTotalDeposits ==
    \A t \in Tokens : tokenBalance[t][Pool] = totalDeposits[t]

\* after deposits, a withdrawal, a loan repaid with interest and a loan still
\* out, the pool holds what totalDeposits says
C31_Witness ==
    /\ userDeposits["A"]["X"] = 0
    /\ userDeposits["B"]["X"] = 100
    /\ Repaid("A", "X")
    /\ userLoans["B"]["X"].active
    /\ totalDeposits["X"] < SumDeposits("X")
    /\ tokenBalance["X"][Pool] = totalDeposits["X"]

\* principal of the loans that are out on asset t
ActivePrincipal(t) ==
    SumOver([u \in Users |-> IF userLoans[u][t].active THEN userLoans[u][t].amount ELSE 0],
            Users)

\* what totalDeposits and the loans that are out exceed the deposit balances by
Surplus(t) == totalDeposits[t] + ActivePrincipal(t) - SumDeposits(t)

\* C32: totalDeposits[asset] plus the principal of the active loans equals
\* the deposit balances plus the interest paid so far: the difference is 0
\* in the initial state, a repay raises it by exactly the interest
\* it charges, every other step leaves it as it is; and repay changes no
\* deposit balance.
C32_AccountingIdentity ==
    /\ \A t \in Tokens : Surplus(t) = 0
    /\ [](\A t \in Tokens : Surplus(t) >= 0)
    /\ [][\A t \in Tokens :
            IF \E u \in Users : userLoans[u][t].active /\ ~userLoans'[u][t].active
            THEN \E u \in Users :
                    /\ repay(u, t)
                    /\ Surplus(t)' = Surplus(t) + (Owed(u, t) - userLoans[u][t].amount)
                    /\ userDeposits' = userDeposits
            ELSE Surplus(t)' = Surplus(t)]_vars

\* A has repaid 400 with 39 of interest while B's loan of 150 is out: the
\* total and B's principal exceed the deposit balances by the 39
C32_Witness ==
    /\ Repaid("A", "X")
    /\ userLoans["A"]["X"].amount = 400
    /\ userLoans["B"]["X"].active
    /\ userLoans["B"]["X"].amount = 150
    /\ SumDeposits("X") = 1100
    /\ totalDeposits["X"] = 989
    /\ Surplus("X") = 39

(***************************************************************************)
(* Escrow of the remittance ledger                                         *)
(***************************************************************************)
\* the transfers in asset t whose principal the ledger is to hold
Escrowed(t) ==
    {i \in Assigned : /\ transfers[i].tokenAddress = t
                      /\ transfers[i].status \in {"PENDING", "COMPLETED"}}

EscrowOf(t) == BSumOver([i \in Escrowed(t) |-> transfers[i].amount], Escrowed(t))

PendingOf(t) ==
    LET S == {i \in Escrowed(t) : transfers[i].status = "PENDING"}
    IN BSumOver([i \in S |-> transfers[i].amount], S)

\* C33: the ledger's own balance of each asset equals the principals of the
\* asset's PENDING and COMPLETED transfers: it does so in the initial state,
\* and every step taken while the treasury is not the ledger itself changes
\* the balance and that sum by the same amount (with the ledger as treasury
\* the fee stays in the balance too). So the balance always covers the
\* principals of the PENDING transfers, and no step moves the principal of a
\* COMPLETED transfer out.
C33_EscrowInvariant ==
    /\ \A t \in Tokens : rBalance[t][Remit] = EscrowOf(t)
    /\ [](\A t \in Tokens :
            /\ BLe(EscrowOf(t), rBalance[t][Remit])
            /\ BLe(PendingOf(t), rBalance[t][Remit]))
    /\ [][(treasury # Remit /\ (rBalance' # rBalance \/ transfers' # transfers)) =>
            \A t \in Tokens :
                BAdd(rBalance'[t][Remit], EscrowOf(t)) = BAdd(rBalance[t][Remit], EscrowOf(t)')]_vars
    /\ [][\A i \in Assigned :
            (transfers[i].status = "COMPLETED" /\ rBalance' # rBalance) =>
                \/ \E k \in InitiateCalls :
                      initiateTransfer(k[1], k[2], k[3], k[4], k[5], k[6])
                \/ \E c \in Callers, j \in Assigned \ {i} : cancelTransfer(c, j)]_vars

\* transfer 1 is COMPLETED, transfer 2 PENDING, the treasury is not the
\* ledger, and the ledger holds exactly the two principals
C33_Witness ==
    /\ transferCounter = 3
    /\ transfers[1].status = "COMPLETED"
    /\ transfers[2].status = "PENDING"
    /\ treasury # Remit
    /\ rBalance["X"][Remit] = BAdd(transfers[1].amount, transfers[2].amount)
    /\ rBalance["X"][Remit] = EscrowOf("X")

\* C34 as claimed: for every id that no initiateTransfer has assigned (0 and
\* the ids from the counter on), completeTransfer and cancelTransfer fail for
\* every caller, getTransfer fails, and the slot of the id holds no record
\* and no status other than the unwritten one.
C34_RejectsUnassignedAsClaimed ==
    \A i \in TransferIds \ Assigned :
        /\ \A c \in Callers :
              /\ ~ENABLED completeTransfer(c, i)
              /\ ~ENABLED cancelTransfer(c, i)
        /\ ~ENABLED getTransferCall(i)
        /\ transfers[i] = NoTransfer

(***************************************************************************)
(* Removed tokens                                                          *)
(***************************************************************************)
\* C35: whether withdraw, repay and cancelTransfer succeed does not depend on
\* the token being supported: withdraw succeeds exactly when the amount is
\* positive and covered by the caller's deposit and by totalDeposits, repay
\* exactly when the loan is active and the borrower has approved and holds
\* what is owed, cancelTransfer exactly when the transfer is PENDING and the
\* caller is its sender or the owner; while deposit and borrow fail on a
\* token the pool does not support and initiateTransfer fails on a token the
\* remittance ledger does not support.
C35_RemovalNeverBlocksExits ==
    \A t \in Tokens :
        /\ \A u \in Users, a \in NestedAmounts :
              /\ ENABLED withdraw(u, t, a) <=>
                     (a > 0 /\ userDeposits[u][t] >= a /\ totalDeposits[t] >= a)
              /\ ~supportedTokens[t] =>
                     (~ENABLED deposit(u, t, a) /\ ~ENABLED borrow(u, t, a))
        /\ \A u \in Users :
              ENABLED repay(u, t) <=>
                 /\ userLoans[u][t].active
                 /\ approved[t][u]
                 /\ tokenBalance[t][u] >= Owed(u, t)
        /\ \A c \in Callers, i \in Assigned :
              transfers[i].tokenAddress = t =>
                 (ENABLED cancelTransfer(c, i) <=>
                     /\ transfers[i].status = "PENDING"
                     /\ (c = transfers[i].sender \/ c = Owner))
        /\ ~rSupportedTokens[t] =>
              \A k \in InitiateCalls \cup ReInitiateCalls :
                  k[2] = t => ~ENABLED initiateTransfer(k[1], k[2], k[3], k[4], k[5], k[6])

\* X has been removed from both ledgers while A has a deposit, a loan and a
\* pending transfer in it: A can withdraw, repay and cancel, the owner can
\* cancel, and nobody can deposit, borrow or initiate
C35_Witness ==
    /\ ~supportedTokens["X"]
    /\ ~rSupportedTokens["X"]
    /\ userDeposits["A"]["X"] = 1000
    /\ userLoans["A"]["X"].active
    /\ transfers[1].status = "PENDING"
    /\ transfers[1].sender = "A"
    /\ ENABLED withdraw("A", "X", 500)
    /\ ENABLED repay("A", "X")
    /\ ENABLED cancelTransfer("A", 1)
    /\ ENABLED cancelTransfer(Owner, 1)
    /\ ~ENABLED deposit("A", "X", 500)
    /\ ~ENABLED borrow("B", "X", 150)
    /\ ~ENABLED initiateTransfer("A", "X", Tok(400), "r1", "US", "MX")

(***************************************************************************)
(* The rate a loan is charged at                                           *)
(***************************************************************************)
\* C36: a repay takes from the borrower the principal plus interest on it for
\* the whole time since the borrow at the rate that interestRates holds for
\* the loan's tier when repay runs, and an updateInterestRate for a tier
\* makes every active loan of that tier owe interest at the new rate for its
\* whole elapsed time.
C36_RateReadAtRepay ==
    /\ [][\A u \in Users, t \in Tokens :
             (userLoans'[u][t] # userLoans[u][t] /\ repay(u, t)) =>
                LET loan == userLoans[u][t]
                    due == loan.amount
                             + InterestAtRate(loan.amount, now - loan.timestamp,
                                              interestRates[loan.riskTier])
                IN /\ tokenBalance'[t][u] = tokenBalance[t][u] - due
                   /\ totalDeposits'[t] = totalDeposits[t] + due]_vars
    /\ [][\A r \in RateTiers, n \in NewRates :
             (interestRates' # interestRates /\ updateInterestRate(Owner, r, n)) =>
                \A u \in Users, t \in Tokens :
                   (userLoans[u][t].active /\ userLoans[u][t].riskTier = r) =>
                      Owed(u, t)' = userLoans[u][t].amount
                                      + InterestAtRate(userLoans[u][t].amount,
                                                       now - userLoans[u][t].timestamp, n)]_vars

\* A borrowed 400 at the start, the MEDIUM rate is 2000 a year later, and A
\* has repaid 479 (at 1000 basis points it would have been 439); B's loan of
\* 150 is still active and owes 179
C36_Witness ==
    /\ interestRates["MEDIUM"] = 2000
    /\ now = StartTime + SecondsPerYear
    /\ Repaid("A", "X")
    /\ userLoans["A"]["X"].timestamp = StartTime
    /\ userDeposits["A"]["X"] = 1000
    /\ tokenBalance["X"]["A"] = InitialHolding("X", "A") - 1000 + 400 - 479
    /\ userLoans["B"]["X"].active
    /\ userLoans["B"]["X"].timestamp = StartTime
    /\ Owed("B", "X") = 179

(***************************************************************************)
(* Interest as a function of time and principal                            *)
(***************************************************************************)
\* C37: calculateInterest returns 0 for an elapsed time of 0, and no more
\* than it returns at the same rate for any principal and elapsed time that
\* are at least as large; a borrow of a takes a out of totalDeposits and
\* gives a to the borrower with the loan stamped now and owing a, and a repay
\* in the block of the borrow takes exactly the principal back into
\* totalDeposits.
C37_InterestZeroAndMonotone ==
    /\ [](calcResult.called =>
            /\ calcResult.timeElapsed = 0 => calcResult.value = 0
            /\ \A a \in CalcAmounts, e \in CalcElapsed :
                  (calcResult.amount <= a /\ calcResult.timeElapsed <= e) =>
                     calcResult.value <= InterestAtRate(a, e, calcResult.rate))
    /\ [](\A u \in Users, t \in Tokens :
            (userLoans[u][t].active /\ userLoans[u][t].timestamp = now) =>
               Owed(u, t) = userLoans[u][t].amount)
    /\ [][\A c \in ReBorrowCalls, t \in Tokens :
             (userLoans'[c[1]][t] # userLoans[c[1]][t] /\ borrow(c[1], t, c[2])) =>
                /\ userLoans'[c[1]][t].amount = c[2]
                /\ userLoans'[c[1]][t].timestamp = now'
                /\ totalDeposits'[t] = totalDeposits[t] - c[2]
                /\ tokenBalance'[t][c[1]] = tokenBalance[t][c[1]] + c[2]]_vars
    /\ [][\A u \in Users, t \in Tokens :
             (userLoans'[u][t] # userLoans[u][t] /\ repay(u, t)
                /\ userLoans[u][t].timestamp = now) =>
                /\ totalDeposits'[t] = totalDeposits[t] + userLoans[u][t].amount
                /\ tokenBalance'[t][u] = tokenBalance[t][u] - userLoans[u][t].amount]_vars

\* a year after deployment, with the MEDIUM rate at 2000, A has borrowed 400
\* and repaid it in the same block: the total is the 1000 A deposited and A
\* holds what A held before the borrow
C37_Witness ==
    /\ interestRates["MEDIUM"] = 2000
    /\ now = StartTime + SecondsPerYear
    /\ Repaid("A", "X")
    /\ userLoans["A"]["X"].timestamp = now
    /\ userDeposits["A"]["X"] = 500
    /\ totalDeposits["X"] = 500
    /\ tokenBalance["X"]["A"] = InitialHolding("X", "A") - 500
    /\ calcResult.called
    /\ calcResult.amount = 400
    /\ calcResult.timeElapsed = 0
    /\ calcResult.rate = 2000
    /\ calcResult.value = 0

(***************************************************************************)
(* Registering a deactivated command again                                 *)
(***************************************************************************)
\* the hash has a stored record that is not active
Deactivated(h) == ~actions[h].active /\ actions[h] # NoAction

\* C38: for a deactivated hash, registerAction by the owner with a non-zero
\* target, selector and description succeeds (and by nobody else); the step
\* stores the new target, selector and description in place of the old ones
\* and sets active, so that getAction and processCommand return the new
\* values.
C38_DeactivatedCanBeRegisteredAgain ==
    /\ [](\A h \in CommandHashes, k \in RegisterCalls :
            (Deactivated(h) /\ k[1] = h) =>
               \A c \in Callers :
                  ENABLED registerAction(c, k[1], k[2], k[3], k[4]) <=>
                     /\ c = Owner
                     /\ k[2] # ZeroAddress
                     /\ k[3] # ZeroSelector
                     /\ k[4] # "")
    /\ [][\A h \in CommandHashes, k \in RegisterCalls :
            (Deactivated(h) /\ k[1] = h /\ registerAction(Owner, k[1], k[2], k[3], k[4])) =>
               /\ actions'[h] = [targetContract |-> k[2], functionSelector |-> k[3],
                                 description |-> k[4], active |-> TRUE]
               /\ getAction(h)' = << k[2], k[3], k[4], TRUE >>
               /\ processCommand(h)' = << k[2], k[3] >>
               /\ \A g \in CommandHashes \ {h} : actions'[g] = actions[g]]_vars

\* h1 resolved to the pool's deposit when the processor last asked; it has
\* since been deactivated and registered for the remittance ledger (no
\* updateAction tried stores that record), and resolves to the new target
C38_Witness ==
    /\ commandResult.called
    /\ commandResult.hash = "h1"
    /\ commandResult.value = << Pool, "deposit" >>
    /\ actions["h1"] = [targetContract |-> Remit, functionSelector |-> "initiateTransfer",
                        description |-> "d2", active |-> TRUE]
    /\ processCommand("h1") = << Remit, "initiateTransfer" >>
    /\ authorizedProcessors["A"]
    /\ ENABLED processCommandCall("A", "h1")

====
